---- MODULE Spec2Model ----
(***************************************************************************)
(* Model of adnvilla/db-go (package dbgo): the process-wide connection     *)
(* singleton (db.go), its configuration (config.go), context propagation   *)
(* (context.go) and the transaction helper (transaction.go).               *)
(*                                                                         *)
(* The goroutines that call the package are the threads of the model; a    *)
(* step is one access to the shared state (the sync.Once words, the        *)
(* connMu-protected variables) or one call of a collaborator.              *)
(***************************************************************************)
EXTENDS Integers, Sequences, FiniteSets, TLC

(***************************************************************************)
(* Bounds of the model.                                                    *)
(***************************************************************************)
NThreads == 2
MaxOps == 3
MaxDepth == 3
MaxCtx == 3
MaxAttach == 2

Threads == 1..NThreads

(***************************************************************************)
(* Errors.  Nil is Go's nil error.                                         *)
(***************************************************************************)
Nil == "nil"
ErrInvalidConfig == "ErrInvalidConfig"
ErrOpen == "ErrOpen"
ErrPool == "ErrPool"
ErrReplica == "ErrReplica"
ErrTracing == "ErrTracing"
ErrNoDatabase == "ErrNoDatabase"
ErrBegin == "ErrBegin"
ErrCommit == "ErrCommit"
ErrRollback == "ErrRollback"
ErrPing == "ErrPing"

\* The errors of a failed attempt to connect.
ConnectivityErrors == {ErrOpen, ErrPool, ErrReplica}

(***************************************************************************)
(* Config (config.go).  knobs is the set of pool-tuning fields that are    *)
(* non-nil pointers; the zero value has none.                              *)
(***************************************************************************)
PoolKnobs == {"MaxOpenConns", "MaxIdleConns", "ConnMaxLifetime", "ConnMaxIdleTime"}

ZeroConfig ==
  [PrimaryDSN |-> "", ReplicasDSN |-> <<>>, knobs |-> {}, EnableTracing |-> FALSE]

\* The configurations the callers of the singleton pass.
Configs ==
  { ZeroConfig,
    [PrimaryDSN |-> "p1", ReplicasDSN |-> <<>>, knobs |-> {"MaxOpenConns"}, EnableTracing |-> TRUE],
    [PrimaryDSN |-> "p2", ReplicasDSN |-> <<"r1">>, knobs |-> PoolKnobs, EnableTracing |-> FALSE],
    [PrimaryDSN |-> "p3", ReplicasDSN |-> <<"r1", "r2">>, knobs |-> {"MaxIdleConns"},
     EnableTracing |-> TRUE] }

Validate_NoCheck(c) == Nil

\* Config.Validate: only the primary target is checked.
Validate(c) == IF c.PrimaryDSN = "" THEN ErrInvalidConfig ELSE Nil

ValidConfigs == { c \in Configs : Validate(c) = Nil }

\* The configurations of the callers that run concurrently: one without
\* replicas, one with.
RaceConfigs == { c \in ValidConfigs : c.PrimaryDSN \in {"p1", "p2"} }

(***************************************************************************)
(* The collaborators' answers to one run of the initializer.               *)
(*   open    : gorm.Open succeeds or fails                                 *)
(*   raw     : what db.DB() yields on the opened handle: a *sql.DB, an     *)
(*             error, or (nil, nil)                                        *)
(*   replica : db.Use(dbresolver.Register(..)) succeeds or fails           *)
(*   tracing : db.Use(tracePlugin) succeeds or fails                       *)
(***************************************************************************)
RawKinds == {"ok", "err", "nil"}

\* What gorm.Open answers: a handle; an error with a nil handle ("fail"); an
\* error with a handle that is not nil ("partial").  The initializer stores
\* the handle gorm.Open returned whichever it is.
OpenKinds == {"ok", "fail", "partial"}

InitOutcomes ==
  [open : OpenKinds, raw : RawKinds, replica : {"ok", "fail"}, tracing : {"ok", "fail"}]

\* The answers explored under concurrent callers: every collaborator works,
\* or gorm.Open fails with a nil handle.  SeqSpec explores all of InitOutcomes.
RaceOutcomes ==
  { oc \in InitOutcomes : /\ oc.open \in {"ok", "fail"}
                          /\ oc.raw = "ok" /\ oc.replica = "ok" /\ oc.tracing = "ok" }

\* A handle as gorm.Open returns it, before any further step.
NewHandle(config, oc) ==
  [cfg |-> config, raw |-> oc.raw, knobs |-> {}, replicas |-> FALSE,
   tracing |-> FALSE, closed |-> 0]

\* applyPoolConfig: an error of db.DB() is returned; a nil *sql.DB sets nothing.
applyPoolConfig(h, config) ==
  IF h.raw = "err" THEN [h |-> h, err |-> ErrPool]
  ELSE IF h.raw = "nil" THEN [h |-> h, err |-> Nil]
  ELSE [h |-> [h EXCEPT !.knobs = config.knobs], err |-> Nil]

\* EnableTracing: the returned handle is nil when the plugin cannot be installed.
EnableTracing(h, config, oc) ==
  IF ~config.EnableTracing THEN [h |-> h, db |-> TRUE, err |-> Nil]
  ELSE IF oc.tracing = "fail" THEN [h |-> h, db |-> FALSE, err |-> ErrTracing]
  ELSE [h |-> [h EXCEPT !.tracing = TRUE], db |-> TRUE, err |-> Nil]

TraceAndStore_SkipsTracing(h, config, oc, steps) ==
  [opened |-> TRUE, h |-> h, store |-> TRUE, err |-> Nil, steps |-> steps]

\* The trace-and-store tail shared by the two branches of the initializer.
TraceAndStore(h, config, oc, steps) ==
  IF config.EnableTracing
  THEN LET r == EnableTracing(h, config, oc)
       IN [opened |-> TRUE, h |-> r.h, store |-> r.db, err |-> r.err,
           steps |-> Append(steps, "tracing")]
  ELSE [opened |-> TRUE, h |-> h, store |-> TRUE, err |-> Nil, steps |-> steps]

\* The body run inside dbConnOnce.Do after activeConfig has been set:
\* opened - gorm.Open produced a handle; h - that handle after the steps;
\* store - conn.Instance receives the handle (FALSE: it receives nil);
\* err - conn.Error; steps - the collaborator calls made, in order.
InitBody(config, oc) ==
  IF oc.open # "ok"
  THEN [opened |-> oc.open = "partial", h |-> NewHandle(config, oc),
        store |-> oc.open = "partial", err |-> ErrOpen, steps |-> <<"open">>]
  ELSE LET p == applyPoolConfig(NewHandle(config, oc), config)
       IN IF p.err # Nil
          THEN [opened |-> TRUE, h |-> p.h, store |-> TRUE, err |-> p.err,
                steps |-> <<"open", "pool">>]
          ELSE IF Len(config.ReplicasDSN) = 0
               THEN TraceAndStore(p.h, config, oc, <<"open", "pool">>)
               ELSE IF oc.replica = "fail"
                    THEN [opened |-> TRUE, h |-> p.h, store |-> TRUE,
                          err |-> ErrReplica, steps |-> <<"open", "pool", "replica">>]
                    ELSE TraceAndStore([p.h EXCEPT !.replicas = TRUE], config, oc,
                                       <<"open", "pool", "replica">>)

(***************************************************************************)
(* State.                                                                  *)
(***************************************************************************)
VARIABLES
  conn,          \* the DBConn singleton: Instance is a handle id, 0 is nil
  activeConfig,  \* the Config of the initializer that ran last
  dbConnOnce,    \* sync.Once: done (atomic word), m (mutex word, 1 = locked)
  handles,       \* every handle gorm.Open has produced, by id
  crashed,       \* the runtime has ended the process with a fatal error
  held,          \* per thread: the initializer's locals db and err, before they are stored
  pc,            \* per thread: where it is inside getConnection
  arg,           \* per thread: the Config of the call it is in
  lastRet,       \* what the step just taken returned to its caller, if anything
  calls,         \* GetConnection calls made so far
  resets,        \* ResetConnection calls made so far
  hist,          \* history of the current epoch (since the last reset)
  stack,         \* the WithTransaction calls in progress, outermost first
  events,        \* what the current outermost WithTransaction call has done so far
  txRet,         \* how the last outermost WithTransaction call ended
  handed,        \* the WithTransaction calls other goroutines made with a context handed to them
  ctxHeap,       \* the contexts the application has derived from context.Background()
  connMu,        \* sync.RWMutex: w, a writer holds it; r, the number of readers holding it
  rd,            \* per thread: the read of the singleton it is making, word by word
  rst            \* where the ResetConnection in progress is ("idle": none is)

vars ==
  <<conn, activeConfig, dbConnOnce, handles, crashed, held, pc, arg, lastRet, calls, resets, hist,
    stack, events, txRet, handed, ctxHeap, connMu, rd, rst>>

\* The variables of the statement-by-statement view of connMu's critical
\* sections.
lockvars == <<connMu, rd, rst>>

\* A thread that is making no read: op is the read being made ("snapshot",
\* "fallback", "config"), at is its position, conn and cfg are the words read.
NoRead ==
  [op |-> "none", at |-> "idle", conn |-> [Instance |-> 0, Error |-> Nil],
   cfg |-> ZeroConfig]

\* The variables of the connection singleton and those of the transaction helper.
dbvars ==
  <<conn, activeConfig, dbConnOnce, handles, crashed, held, pc, arg, lastRet, calls, resets, hist>>
txvars == <<stack, events, txRet, handed>>

\* A function result: kind "return" with an error value, or "panic" with the
\* panic value; "none" while there is no result.
NoRes == [kind |-> "none", val |-> Nil]
Return(e) == [kind |-> "return", val |-> e]
Panic(p) == [kind |-> "panic", val |-> p]

NilConn == [Instance |-> 0, Error |-> Nil]

\* What held records of a goroutine that a panic of the initializer unwinds.
Panicking == [Instance |-> 0, Error |-> "panic"]
FreshOnce == [done |-> 0, m |-> 0]

\* op: the function that returned; cfg: the Config it was called with;
\* kind: it returned or it panicked; Instance, Error: the DBConn returned.
NoRet ==
  [op |-> "none", cfg |-> ZeroConfig, kind |-> "return", Instance |-> 0, Error |-> Nil]
Returned(op, cfg, instance, err) ==
  [op |-> op, cfg |-> cfg, kind |-> "return", Instance |-> instance, Error |-> err]

\* inits: initializer bodies started; stored: initializer bodies that stored
\* their result; first: the Config of the first body started; results: the
\* pairs returned by calls that passed validation; invalid: a call failed
\* validation; afterInvalid: a body started after such a call; stale: the
\* threads that were inside getConnection when the reset that began the epoch
\* ran and have not returned yet; dirty: there were such threads; close: what
\* the Close attempted by that reset did ("empty": the singleton held no
\* handle; "none": it held one and no Close was attempted); racing: a call
\* held the gate's mutex at some moment of that reset; failure: the first
\* connectivity error (open, pool, replica) an initializer body stored; late:
\* the threads whose call in progress began after that error was stored.
FreshHist ==
  [inits |-> 0, stored |-> 0, first |-> ZeroConfig, results |-> {}, invalid |-> FALSE,
   afterInvalid |-> FALSE, stale |-> {}, dirty |-> FALSE, close |-> "none",
   racing |-> FALSE, failure |-> Nil, late |-> {}]

Init ==
  /\ conn = NilConn
  /\ activeConfig = ZeroConfig
  /\ dbConnOnce = FreshOnce
  /\ handles = <<>>
  /\ crashed = FALSE
  /\ held = [t \in Threads |-> NilConn]
  /\ pc = [t \in Threads |-> "idle"]
  /\ arg = [t \in Threads |-> ZeroConfig]
  /\ lastRet = NoRet
  /\ calls = 0
  /\ resets = 0
  /\ hist = FreshHist
  /\ stack = <<>>
  /\ events = <<>>
  /\ txRet = NoRes
  /\ handed = {}
  /\ ctxHeap = <<>>
  /\ connMu = [w |-> FALSE, r |-> 0]
  /\ rd = [t \in Threads |-> NoRead]
  /\ rst = "idle"

InFlight == { t \in Threads : pc[t] # "idle" }

\* The calls inside sync.Once.doSlow, between o.m.Lock() and o.m.Unlock().
InDoSlow ==
  { t \in Threads : pc[t] \in {"once_locked", "init_cfg", "init_body", "init_store",
                                "once_store", "once_unlock"} }

\* connMu is free: no ResetConnection is between its Lock and its Unlock.
\* The steps that take connMu wait for it.
ConnMuFree == rst = "idle"

\* GetActiveConfig: what a call made in this state returns, the copy of
\* activeConfig taken under connMu.RLock.
GetActiveConfig == activeConfig

(***************************************************************************)
(* getConnection (db.go:70-157).                                           *)
(***************************************************************************)
OnceSkips_Never(done) == FALSE

\* sync.Once: the body is skipped when done has been stored.
OnceSkips(done) == done # 0

\* A goroutine calls GetConnection(c): Validate, then the first read of the
\* gate, Once.Do's  if o.done.Load() == 0 { o.doSlow(f) }.  Goroutines outside
\* a call are alike, so the call takes the lowest free thread.
GetConnection(t, c) ==
  /\ ~crashed
  /\ pc[t] = "idle"
  /\ \A u \in Threads : u < t => pc[u] # "idle"
  /\ calls + resets < MaxOps
  /\ calls' = calls + 1
  /\ LET e == Validate(c)
     IN IF e # Nil
        THEN /\ lastRet' = Returned("GetConnection", c, 0, e)
             /\ hist' = [hist EXCEPT !.invalid = TRUE]
             /\ UNCHANGED <<pc, arg>>
        ELSE /\ pc' = [pc EXCEPT ![t] = IF OnceSkips(dbConnOnce.done)
                                        THEN "snapshot" ELSE "once_lock"]
             /\ arg' = [arg EXCEPT ![t] = c]
             /\ lastRet' = NoRet
             /\ hist' = [hist EXCEPT
                           !.late = IF hist.failure # Nil THEN @ \cup {t} ELSE @,
                           !.stale = IF ConnMuFree THEN @ ELSE @ \cup {t},
                           !.dirty = @ \/ ~ConnMuFree]
  /\ UNCHANGED <<conn, activeConfig, dbConnOnce, handles, crashed, held, resets, stack, events, txRet, handed, ctxHeap, lockvars>>

\* doSlow: o.m.Lock()
OnceLock(t) ==
  /\ ~crashed
  /\ pc[t] = "once_lock"
  /\ dbConnOnce.m = 0
  /\ dbConnOnce' = [dbConnOnce EXCEPT !.m = 1]
  /\ pc' = [pc EXCEPT ![t] = "once_locked"]
  /\ lastRet' = NoRet
  /\ hist' = [hist EXCEPT !.racing = @ \/ ~ConnMuFree]
  /\ UNCHANGED <<conn, activeConfig, handles, crashed, held, arg, calls, resets, stack, events, txRet, handed, ctxHeap, lockvars>>

\* doSlow: if o.done.Load() == 0 { defer o.done.Store(1); f() }
OnceSlowCheck(t) ==
  /\ ~crashed
  /\ pc[t] = "once_locked"
  /\ IF OnceSkips(dbConnOnce.done)
     THEN /\ pc' = [pc EXCEPT ![t] = "once_unlock"]
          /\ UNCHANGED hist
     ELSE /\ pc' = [pc EXCEPT ![t] = "init_cfg"]
          /\ hist' = [hist EXCEPT !.inits = @ + 1,
                                  !.first = IF hist.inits = 0 THEN arg[t] ELSE @,
                                  !.afterInvalid = hist.invalid]
  /\ lastRet' = NoRet
  /\ UNCHANGED <<conn, activeConfig, dbConnOnce, handles, crashed, held, arg, calls, resets, stack, events, txRet, handed, ctxHeap, lockvars>>

\* connMu.Lock(); activeConfig = config; connMu.Unlock()
InitSetConfig(t) ==
  /\ ~crashed
  /\ ConnMuFree
  /\ pc[t] = "init_cfg"
  /\ activeConfig' = arg[t]
  /\ pc' = [pc EXCEPT ![t] = "init_body"]
  /\ lastRet' = NoRet
  /\ UNCHANGED <<conn, dbConnOnce, handles, crashed, held, arg, calls, resets, hist, stack, events, txRet, handed, ctxHeap, lockvars>>

\* The collaborator calls of the initializer, from gorm.Open to the last
\* db.Use, answering oc.  They work on the initializer's locals db and err:
\* the handle exists from here on, conn does not hold it yet.
InitRun(t, oc) ==
  /\ ~crashed
  /\ pc[t] = "init_body"
  /\ LET r == InitBody(arg[t], oc)
         id == Len(handles) + 1
     IN /\ handles' = IF r.opened THEN Append(handles, r.h) ELSE handles
        /\ held' = [held EXCEPT ![t] =
                      [Instance |-> IF r.opened /\ r.store THEN id ELSE 0,
                       Error |-> r.err]]
  /\ pc' = [pc EXCEPT ![t] = "init_store"]
  /\ lastRet' = NoRet
  /\ UNCHANGED <<conn, activeConfig, dbConnOnce, crashed, arg, calls, resets, hist, stack, events, txRet, handed, ctxHeap, lockvars>>

\* A collaborator call of the initializer panics: gorm.Open (no handle
\* exists) or a later call (the handle is open).  Nothing is stored; the
\* panic unwinds through the deferred calls of sync.Once and out of
\* getConnection, which recovers nothing.
InitPanics(t, opened) ==
  /\ ~crashed
  /\ pc[t] = "init_body"
  /\ handles' = IF opened
                THEN Append(handles, NewHandle(arg[t], [raw |-> "ok"]))
                ELSE handles
  /\ held' = [held EXCEPT ![t] = Panicking]
  /\ pc' = [pc EXCEPT ![t] = "once_store"]
  /\ lastRet' = NoRet
  /\ UNCHANGED <<conn, activeConfig, dbConnOnce, crashed, arg, calls, resets, hist, stack, events, txRet, handed, ctxHeap, lockvars>>

\* connMu.Lock(); conn.Instance, conn.Error = db, err; connMu.Unlock(), on
\* whichever path the initializer leaves.
InitStore(t) ==
  /\ ~crashed
  /\ ConnMuFree
  /\ pc[t] = "init_store"
  /\ conn' = held[t]
  /\ held' = [held EXCEPT ![t] = NilConn]
  /\ pc' = [pc EXCEPT ![t] = "once_store"]
  /\ hist' = [hist EXCEPT
                !.stored = @ + 1,
                !.failure = IF @ = Nil /\ held[t].Error \in ConnectivityErrors
                            THEN held[t].Error ELSE @]
  /\ lastRet' = NoRet
  /\ UNCHANGED <<activeConfig, dbConnOnce, handles, crashed, arg, calls, resets, stack, events, txRet, handed, ctxHeap, lockvars>>

\* deferred o.done.Store(1)
OnceStore(t) ==
  /\ ~crashed
  /\ pc[t] = "once_store"
  /\ dbConnOnce' = [dbConnOnce EXCEPT !.done = 1]
  /\ pc' = [pc EXCEPT ![t] = "once_unlock"]
  /\ lastRet' = NoRet
  /\ UNCHANGED <<conn, activeConfig, handles, crashed, held, arg, calls, resets, hist, stack, events, txRet, handed, ctxHeap, lockvars>>

\* deferred o.m.Unlock(): unlocking an unlocked sync.Mutex is a fatal error.
\* A panic of the initializer goes on from here to the caller of
\* GetConnection.
OnceUnlock(t) ==
  /\ ~crashed
  /\ pc[t] = "once_unlock"
  /\ IF dbConnOnce.m # 1
     THEN /\ crashed' = TRUE
          /\ lastRet' = NoRet
          /\ UNCHANGED <<dbConnOnce, pc, held, arg, hist>>
     ELSE IF held[t] = Panicking
     THEN /\ dbConnOnce' = [dbConnOnce EXCEPT !.m = 0]
          /\ pc' = [pc EXCEPT ![t] = "idle"]
          /\ held' = [held EXCEPT ![t] = NilConn]
          /\ lastRet' = [Returned("GetConnection", arg[t], 0, Nil) EXCEPT !.kind = "panic"]
          /\ arg' = [arg EXCEPT ![t] = ZeroConfig]
          /\ hist' = [hist EXCEPT !.stale = @ \ {t}, !.late = @ \ {t}]
          /\ UNCHANGED crashed
     ELSE /\ dbConnOnce' = [dbConnOnce EXCEPT !.m = 0]
          /\ pc' = [pc EXCEPT ![t] = "snapshot"]
          /\ lastRet' = NoRet
          /\ UNCHANGED <<crashed, held, arg, hist>>
  /\ UNCHANGED <<conn, activeConfig, handles, calls, resets, stack, events, txRet, handed, ctxHeap, lockvars>>

\* connMu.RLock(); result := conn; connMu.RUnlock(); return &result
Snapshot(t) ==
  /\ ~crashed
  /\ ConnMuFree
  /\ pc[t] = "snapshot"
  /\ lastRet' = Returned("GetConnection", arg[t], conn.Instance, conn.Error)
  /\ pc' = [pc EXCEPT ![t] = "idle"]
  /\ arg' = [arg EXCEPT ![t] = ZeroConfig]
  /\ hist' = [hist EXCEPT !.results = IF hist.dirty THEN @ ELSE @ \cup {conn},
                          !.stale = @ \ {t},
                          !.late = @ \ {t}]
  /\ UNCHANGED <<conn, activeConfig, dbConnOnce, handles, crashed, held, calls, resets, stack, events, txRet, handed, ctxHeap, lockvars>>

(***************************************************************************)
(* ResetConnection (db.go:179-193), called by any goroutine.  The function *)
(* runs under connMu.Lock, so its statements are one step for the readers  *)
(* and writers of conn and activeConfig.  Its last statement, dbConnOnce = *)
(* sync.Once{} (db.go:192), writes a struct that getConnection reads and   *)
(* writes without connMu (dbConnOnce.Do, db.go:74): the assignment is a    *)
(* plain store of each word of the struct, in an order the build chooses,  *)
(* and the steps of a call inside Do can come between the two stores.      *)
(***************************************************************************)
CloseOutcomes == {"ok", "err", "panic"}

Recovers_Not(outcome) == FALSE

\* defer func() { recover() }() around the close.
Recovers(outcome) == TRUE

CloseAttempted_Never(h) == FALSE

\* if sqlDB, err := conn.Instance.DB(); err == nil && sqlDB != nil { sqlDB.Close() }
CloseAttempted(h) == h.raw = "ok"

DBConnZero_Kept == conn

\* conn = DBConn{}
DBConnZero == NilConn

\* The words of sync.Once: done (atomic.Uint32) and m (sync.Mutex).
OnceWords == {"done", "m"}

\* Where a reset is when it has stored the zero value into word w only.
Stored(w) == IF w = "done" THEN "stored_done" ELSE "stored_m"

\* connMu.Lock(), the best-effort close, conn = DBConn{}, activeConfig =
\* Config{} and the store of the first word of dbConnOnce = sync.Once{},
\* whichever word that is.  (The steps of other goroutines that could come
\* before that store wait for connMu or touch dbConnOnce only.)  A panic of
\* the close that were not recovered would leave through the deferred
\* connMu.Unlock().
ResetConnection(co) ==
  /\ ~crashed
  /\ ConnMuFree
  /\ calls + resets < MaxOps
  /\ resets' = resets + 1
  /\ LET attempt == conn.Instance # 0 /\ CloseAttempted(handles[conn.Instance])
         escaped == attempt /\ co = "panic" /\ ~Recovers(co)
     IN /\ attempt \/ co = "ok"
        /\ handles' = IF attempt
                      THEN [handles EXCEPT ![conn.Instance].closed = @ + 1]
                      ELSE handles
        /\ IF escaped
           THEN /\ lastRet' = [Returned("ResetConnection", ZeroConfig, 0, Nil)
                                 EXCEPT !.kind = "panic"]
                /\ UNCHANGED <<conn, activeConfig, dbConnOnce, hist, rst>>
           ELSE /\ lastRet' = NoRet
                /\ conn' = DBConnZero
                /\ activeConfig' = ZeroConfig
                /\ \E w \in OnceWords :
                     /\ dbConnOnce' = [dbConnOnce EXCEPT ![w] = 0]
                     /\ rst' = Stored(w)
                /\ hist' = [FreshHist EXCEPT
                              !.stale = InFlight,
                              !.dirty = (InFlight # {}),
                              !.racing = (InDoSlow # {}),
                              !.close = IF attempt THEN co
                                        ELSE IF conn.Instance = 0 THEN "empty"
                                        ELSE "none"]
  /\ UNCHANGED <<crashed, held, pc, arg, calls, stack, events, txRet, handed, ctxHeap, connMu, rd>>

\* The store of the other word of dbConnOnce = sync.Once{}, the deferred
\* connMu.Unlock() and the return.
ResetReturns ==
  /\ ~crashed
  /\ \E w \in OnceWords :
       /\ \E v \in OnceWords \ {w} : rst = Stored(v)
       /\ dbConnOnce' = [dbConnOnce EXCEPT ![w] = 0]
  /\ rst' = "idle"
  /\ lastRet' = Returned("ResetConnection", ZeroConfig, 0, Nil)
  /\ UNCHANGED <<conn, activeConfig, handles, crashed, held, pc, arg, calls, resets, hist, stack, events, txRet, handed, ctxHeap, connMu, rd>>

\* The answers of db.Use to the tracing plugin.
TracingOutcomes ==
  { oc \in InitOutcomes : oc.open = "ok" /\ oc.raw = "ok" /\ oc.replica = "ok" }

\* The application calls the exported EnableTracing(db, c) on the handle the
\* singleton holds, between its calls of GetConnection; oc.tracing is the
\* answer of db.Use to the plugin, asked only when c enables tracing.
EnableTracingCall(c, oc) ==
  /\ ~crashed
  /\ InFlight = {}
  /\ conn.Instance # 0
  /\ c.EnableTracing \/ oc.tracing = "ok"
  /\ LET r == EnableTracing(handles[conn.Instance], c, oc)
     IN /\ handles' = [handles EXCEPT ![conn.Instance] = r.h]
        /\ lastRet' = Returned("EnableTracing", c,
                                IF r.db THEN conn.Instance ELSE 0, r.err)
  /\ UNCHANGED <<conn, activeConfig, dbConnOnce, crashed, held, pc, arg, calls, resets, hist, stack, events, txRet, handed, ctxHeap, lockvars>>

(***************************************************************************)
(* The connection singleton under concurrent callers that pass validation. *)
(***************************************************************************)
Next ==
  \/ \E t \in Threads :
       \/ \E c \in RaceConfigs : GetConnection(t, c)
       \/ OnceLock(t)
       \/ OnceSlowCheck(t)
       \/ InitSetConfig(t)
       \/ \E oc \in RaceOutcomes : InitRun(t, oc)
       \/ InitStore(t)
       \/ OnceStore(t)
       \/ OnceUnlock(t)
       \/ Snapshot(t)
  \/ ResetConnection("ok")
  \/ ResetReturns

Spec == Init /\ [][Next]_vars

(***************************************************************************)
(* Concurrent callers that pass validation, before any reset, with every   *)
(* answer of the collaborators, a panic included.                          *)
(***************************************************************************)
OnceNext ==
  \E t \in Threads :
    \/ \E c \in RaceConfigs : GetConnection(t, c)
    \/ OnceLock(t)
    \/ OnceSlowCheck(t)
    \/ InitSetConfig(t)
    \/ \E oc \in InitOutcomes : InitRun(t, oc)
    \/ \E opened \in BOOLEAN : InitPanics(t, opened)
    \/ InitStore(t)
    \/ OnceStore(t)
    \/ OnceUnlock(t)
    \/ Snapshot(t)

OnceSpec == Init /\ [][OnceNext]_vars

(***************************************************************************)
(* The connection singleton with one caller at a time inside getConnection *)
(* and every answer of the collaborators.                                  *)
(***************************************************************************)
SeqNext ==
  \/ \E c \in Configs : GetConnection(1, c)
  \/ OnceLock(1)
  \/ OnceSlowCheck(1)
  \/ InitSetConfig(1)
  \/ \E oc \in InitOutcomes : InitRun(1, oc)
  \/ \E opened \in BOOLEAN : InitPanics(1, opened)
  \/ InitStore(1)
  \/ OnceStore(1)
  \/ OnceUnlock(1)
  \/ Snapshot(1)
  \/ \E co \in CloseOutcomes : ResetConnection(co)
  \/ ResetReturns
  \/ \E c \in RaceConfigs : \E oc \in TracingOutcomes : EnableTracingCall(c, oc)

SeqSpec == Init /\ [][SeqNext]_vars

(***************************************************************************)
(* Context propagation (context.go) and WithTransaction (transaction.go).  *)
(*                                                                         *)
(* A handle reference is what a *gorm.DB variable holds: nil, the handle   *)
(* of the singleton (id indexes handles), or a handle the application got  *)
(* elsewhere; tx > 0 when the reference was returned by Begin, so that its *)
(* Statement.ConnPool is the transaction tx.  A context carries the value  *)
(* stored under dbContextKey (has, h) and the active tracing span.         *)
(***************************************************************************)
Unbound == -1

\* A *gorm.DB pointer: nil, a handle the application opened itself, or the
\* singleton's; tx: the physical transaction it runs in (0: none); bound: the
\* context a session derived by db.WithContext carries (Unbound: the handle
\* itself).
NilRef == [kind |-> "nil", id |-> 0, tx |-> 0, bound |-> Unbound]
ExternalRef == [kind |-> "external", id |-> 0, tx |-> 0, bound |-> Unbound]
SingletonRef(instance) == [kind |-> "singleton", id |-> instance, tx |-> 0, bound |-> Unbound]

Background == [has |-> FALSE, h |-> NilRef, span |-> 0]

SetFromContext_Unchanged(ctx, db) == ctx

\* context.WithValue(ctx, dbContextKey, db)
SetFromContext(ctx, db) == [ctx EXCEPT !.has = TRUE, !.h = db]

GetFromContext_ChecksError(ctx) ==
  IF ctx.has THEN ctx.h
  ELSE IF conn.Instance # 0 /\ conn.Error = Nil THEN SingletonRef(conn.Instance)
  ELSE NilRef

GetFromContext_NilFallsBack(ctx) ==
  IF ctx.has /\ ctx.h.kind # "nil" THEN ctx.h
  ELSE IF conn.Instance # 0 THEN SingletonRef(conn.Instance)
  ELSE NilRef

GetFromContext_SingletonFirst(ctx) ==
  IF conn.Instance # 0 THEN SingletonRef(conn.Instance)
  ELSE IF ctx.has THEN ctx.h
  ELSE NilRef

\* The value of the context when it holds a *gorm.DB (a nil one included),
\* else the singleton's handle, else nil.
GetFromContext(ctx) ==
  IF ctx.has THEN ctx.h
  ELSE IF conn.Instance # 0 THEN SingletonRef(conn.Instance)
  ELSE NilRef

IsNil_Never(db) == FALSE

\* dbInstance == nil
IsNil(db) == db.kind = "nil"

isTransaction_Never(db) == FALSE

\* _, ok := db.Statement.ConnPool.(gorm.TxCommitter)
isTransaction(db) == db.tx # 0

\* The contexts the application passes to an outermost WithTransaction call.
TxContexts ==
  { Background,
    SetFromContext(Background, NilRef),
    SetFromContext(Background, ExternalRef) }

\* What a unit of work returns or panics with, and the drivers' answers.
UowErrors == {"E1"}
PanicValues == {"P1"}
DriverOutcomes == {"ok", "err"}

\* One entry of events.  op: Prev (the application's previous call, in
\* short), Enter (WithTransaction called), SpanStart,
\* Begin, Uow (the unit of work invoked), Commit, Rollback, SpanFinish, Exit
\* (WithTransaction returned or panicked); depth: nesting depth of the
\* WithTransaction call that did it; tag: for Enter the context passed
\* ("top", "received", "fresh"), for Exit the path taken, for Begin the
\* clause applied; target: for Begin, the database the session was routed
\* to; tx, span: the transaction and span concerned; ok: the collaborator
\* succeeded (SpanFinish: no error tag was set); ctx: the context involved;
\* h: the handle involved; uow, out: for Exit, how the unit of work ended and
\* how WithTransaction ended.
Ev(op, depth) ==
  [op |-> op, depth |-> depth, tag |-> "", target |-> "", tx |-> 0, span |-> 0,
   ok |-> TRUE, ctx |-> Background, h |-> NilRef, uow |-> NoRes, out |-> NoRes]

EventsOf(evs, op) == { i \in 1..Len(evs) : evs[i].op = op }
EventsOn(evs, op, tx) == { i \in EventsOf(evs, op) : evs[i].tx = tx }

\* A call in progress: path "new" (it began tx) or "reuse"; ctx: the context
\* given to its unit of work; st: the unit of work is "running" or "done"
\* with result res; nested: the unit of work has made its inner call.
Frame(path, ctx, tx, span) ==
  [path |-> path, ctx |-> ctx, tx |-> tx, span |-> span, st |-> "running",
   res |-> NoRes, nested |-> FALSE, h |-> NilRef]

SpanFinish_SkipsOnPanic(depth, span, out) ==
  IF span = 0 \/ out.kind = "panic" THEN <<>>
  ELSE << [Ev("SpanFinish", depth) EXCEPT
             !.span = span,
             !.ok = ~(out.kind = "return" /\ out.val # Nil)] >>

\* The deferred span function: tags the span when err is set, then Finish.
SpanFinish(depth, span, out) ==
  IF span = 0 THEN <<>>
  ELSE << [Ev("SpanFinish", depth) EXCEPT
             !.span = span,
             !.ok = ~(out.kind = "return" /\ out.val # Nil)] >>

StartsSpan_Always(cfg) == TRUE

\* if cfg.EnableTracing, with cfg := GetActiveConfig()
StartsSpan(cfg) == cfg.EnableTracing

Clauses_None(db) == "none"

\* Clauses(dbresolver.Write): the routing clause of the session Begin is
\* called on.
Clauses(db) == "write"

\* The handle has the replica resolver registered: the singleton's when the
\* initializer registered it (db.go:129); a handle the application opened
\* itself may have one.
Registered(db) ==
  \/ db.kind = "external"
  \/ db.kind = "singleton" /\ db.id \in DOMAIN handles /\ handles[db.id].replicas

\* The databases the resolver may route a session to.  The resolver is
\* registered with the replicas only, so the primary is its source: a session
\* with dbresolver.Write goes to the primary, and one without it "may be
\* executed against one of these replicas" (config.go, ReplicasDSN).
Targets(registered, clause) ==
  IF registered /\ clause # "write" THEN {"primary", "replica"} ELSE {"primary"}

TxHandle_NotTransactional(dbInstance, tx) == dbInstance

\* db := dbInstance.Session(...).Clauses(...).Begin(): the handle of the
\* transaction begun on dbInstance.
TxHandle(dbInstance, tx) == [dbInstance EXCEPT !.tx = tx]

BeginFailed_Never(bo) == FALSE

\* if db.Error != nil, after Begin.
BeginFailed(bo) == bo # "ok"

\* A call between its GetFromContext and its Begin: h is the handle it
\* resolved (the local dbInstance); st: "resolved" (GetActiveConfig comes
\* next), "spanning" (tracer.StartSpanFromContext comes next) or "beginning".
Pending(ctx, h) ==
  [Frame("pending", ctx, 0, 0) EXCEPT !.st = "resolved", !.h = h]

\* WithTransaction up to its first read of shared state, called at nesting
\* depth Len(stack) + 1 with ctx, after the events evs: GetFromContext, the
\* nil check and the transaction check.  evs: the events after it; frames:
\* the frame of the call when it goes on; out: the result when the call has
\* returned already.
Entered(evs, ctx, how) ==
  LET depth == Len(stack) + 1
      enter == [Ev("Enter", depth) EXCEPT !.tag = how, !.ctx = ctx]
      dbInstance == GetFromContext(ctx)
  IN IF IsNil(dbInstance)
     THEN [evs |-> evs \o << enter,
                             [Ev("Exit", depth) EXCEPT !.tag = "nodb",
                                                       !.out = Return(ErrNoDatabase)] >>,
           frames |-> <<>>, out |-> Return(ErrNoDatabase)]
     ELSE IF isTransaction(dbInstance)
     THEN [evs |-> evs \o << enter,
                             [Ev("Uow", depth) EXCEPT !.tx = dbInstance.tx, !.ctx = ctx] >>,
           frames |-> << Frame("reuse", ctx, dbInstance.tx, 0) >>, out |-> NoRes]
     ELSE [evs |-> evs \o << enter >>,
           frames |-> << Pending(ctx, dbInstance) >>, out |-> NoRes]

\* What the log keeps of the application's previous call when the next one
\* starts: one Prev entry with the context it was given, the handle it
\* resolved, the path it took and its result.
PrevCall(evs) ==
  IF evs = <<>> THEN <<>>
  ELSE LET enter == evs[CHOOSE i \in EventsOf(evs, "Enter") : evs[i].depth = 1]
           exit == evs[Len(evs)]
       IN << [Ev("Prev", 0) EXCEPT !.ctx = enter.ctx, !.h = GetFromContext(enter.ctx),
                                   !.tag = exit.tag, !.out = exit.out] >>

\* The application calls WithTransaction(ctx, fn) outside any transaction:
\* the call resolves its handle.
WithTransaction(ctx) ==
  /\ stack = <<>>
  /\ ctx.has \/ ConnMuFree
  /\ LET r == Entered(PrevCall(events), ctx, "top")
     IN /\ events' = r.evs
        /\ stack' = r.frames
        /\ txRet' = r.out
  /\ UNCHANGED <<dbvars, handed, ctxHeap, lockvars>>

\* A unit of work calls WithTransaction: with the context it received, or
\* with a fresh context.Background().  The call resolves its handle.
UowCallsWithTransaction(how) ==
  /\ stack # <<>>
  /\ Len(stack) < MaxDepth
  /\ LET n == Len(stack)
         top == stack[n]
         ctx == IF how = "received" THEN top.ctx ELSE Background
         r == Entered(events, ctx, how)
     IN /\ top.st = "running"
        /\ ctx.has \/ ConnMuFree
        /\ ~top.nested
        /\ events' = r.evs
        /\ stack' = [stack EXCEPT ![n].nested = TRUE] \o r.frames
  /\ UNCHANGED <<txRet>>
  /\ UNCHANGED <<dbvars, handed, ctxHeap, lockvars>>

\* cfg := GetActiveConfig(), read when the call gets there, and the test of
\* cfg.EnableTracing.
WithTransactionReadsConfig ==
  /\ stack # <<>>
  /\ ConnMuFree
  /\ LET n == Len(stack)
     IN /\ stack[n].st = "resolved"
        /\ stack' = [stack EXCEPT ![n].st = IF StartsSpan(GetActiveConfig)
                                            THEN "spanning" ELSE "beginning"]
  /\ UNCHANGED <<events, txRet>>
  /\ UNCHANGED <<dbvars, handed, ctxHeap, lockvars>>

\* span, ctx = tracer.StartSpanFromContext(ctx, "db.transaction", opts...)
WithTransactionStartsSpan ==
  /\ stack # <<>>
  /\ LET n == Len(stack)
         top == stack[n]
         span == Cardinality(EventsOf(events, "SpanStart")) + 1
     IN /\ top.st = "spanning"
        /\ events' = Append(events, [Ev("SpanStart", n) EXCEPT !.span = span,
                                                               !.ctx = top.ctx])
        /\ stack' = [stack EXCEPT ![n].st = "beginning", ![n].span = span,
                                  ![n].ctx = [top.ctx EXCEPT !.span = span]]
  /\ UNCHANGED <<txRet>>
  /\ UNCHANGED <<dbvars, handed, ctxHeap, lockvars>>

\* db := dbInstance.Session(...).Clauses(dbresolver.Write).Begin() on the
\* handle resolved earlier, routed by the resolver when the handle has one;
\* bo is the driver's answer.  On an error the call
\* returns it through the deferred span function, else it invokes the unit
\* of work with SetFromContext(ctx, db).
WithTransactionBegins(bo) ==
  /\ stack # <<>>
  /\ LET n == Len(stack)
         top == stack[n]
         tx == Cardinality(EventsOf(events, "Begin")) + 1
         db == TxHandle(top.h, tx)
         uctx == SetFromContext(top.ctx, db)
     IN /\ top.st = "beginning"
        /\ \E target \in Targets(Registered(top.h), Clauses(top.h)) :
             LET begin == [Ev("Begin", n) EXCEPT !.tag = Clauses(top.h),
                                                 !.target = target,
                                                 !.tx = tx, !.span = top.span,
                                                 !.ok = (bo = "ok"),
                                                 !.ctx = top.ctx, !.h = top.h]
             IN IF BeginFailed(bo)
                THEN /\ events' = events \o << begin >>
                                    \o SpanFinish(n, top.span, Return(ErrBegin))
                                    \o << [Ev("Exit", n) EXCEPT !.tag = "beginerr",
                                                                !.tx = tx,
                                                                !.out = Return(ErrBegin)] >>
                     /\ stack' = SubSeq(stack, 1, n - 1)
                     /\ txRet' = IF n = 1 THEN Return(ErrBegin) ELSE txRet
                ELSE /\ events' = events \o << begin,
                                               [Ev("Uow", n) EXCEPT !.tx = tx,
                                                                    !.ctx = uctx] >>
                     /\ stack' = [stack EXCEPT ![n] = Frame("new", uctx, tx, top.span)]
                     /\ UNCHANGED txRet
  /\ UNCHANGED <<dbvars, handed, ctxHeap, lockvars>>

\* A unit of work returns e (nil or an error).
UowReturns(e) ==
  /\ stack # <<>>
  /\ stack[Len(stack)].st = "running"
  /\ stack' = [stack EXCEPT ![Len(stack)].st = "done", ![Len(stack)].res = Return(e)]
  /\ UNCHANGED <<events, txRet>>
  /\ UNCHANGED <<dbvars, handed, ctxHeap, lockvars>>

\* A unit of work panics with p.
UowPanics(p) ==
  /\ stack # <<>>
  /\ stack[Len(stack)].st = "running"
  /\ stack' = [stack EXCEPT ![Len(stack)].st = "done", ![Len(stack)].res = Panic(p)]
  /\ UNCHANGED <<events, txRet>>
  /\ UNCHANGED <<dbvars, handed, ctxHeap, lockvars>>

Deferred_PanicBecomesError(res, co) ==
  IF res.kind = "panic" THEN [ops |-> <<"Rollback">>, out |-> Return(res.val)]
  ELSE IF res.val # Nil THEN [ops |-> <<"Rollback">>, out |-> res]
  ELSE [ops |-> <<"Commit">>, out |-> Return(IF co = "ok" THEN Nil ELSE ErrCommit)]

Deferred_RollbackErrorWins(res, co) ==
  IF res.kind = "panic" THEN [ops |-> <<"Rollback">>, out |-> res]
  ELSE IF res.val # Nil
       THEN [ops |-> <<"Rollback">>,
             out |-> IF co = "ok" THEN res ELSE Return(ErrRollback)]
  ELSE [ops |-> <<"Commit">>, out |-> Return(IF co = "ok" THEN Nil ELSE ErrCommit)]

Deferred_RollbackAfterFailedCommit(res, co) ==
  IF res.kind = "panic" THEN [ops |-> <<"Rollback">>, out |-> res]
  ELSE IF res.val # Nil THEN [ops |-> <<"Rollback">>, out |-> res]
  ELSE [ops |-> IF co = "ok" THEN <<"Commit">> ELSE <<"Commit", "Rollback">>,
        out |-> Return(IF co = "ok" THEN Nil ELSE ErrCommit)]

Deferred_NoRollbackOnPanic(res, co) ==
  IF res.kind = "panic" THEN [ops |-> <<>>, out |-> res]
  ELSE IF res.val # Nil THEN [ops |-> <<"Rollback">>, out |-> res]
  ELSE [ops |-> <<"Commit">>, out |-> Return(IF co = "ok" THEN Nil ELSE ErrCommit)]

\* The deferred function of the new-transaction path, given how the unit of
\* work ended and the driver's answer co: a panic is rolled back and
\* re-thrown, an error is rolled back and returned (a failed rollback is
\* only logged), nil is committed and the commit's error returned.
Deferred(res, co) ==
  IF res.kind = "panic" THEN [ops |-> <<"Rollback">>, out |-> res]
  ELSE IF res.val # Nil THEN [ops |-> <<"Rollback">>, out |-> res]
  ELSE [ops |-> <<"Commit">>, out |-> Return(IF co = "ok" THEN Nil ELSE ErrCommit)]

Reused_RollsBackOnError(res) ==
  IF res.kind = "return" /\ res.val = Nil THEN [ops |-> <<>>, out |-> res]
  ELSE [ops |-> <<"Rollback">>, out |-> res]

\* return fn(ctx) on an already transactional handle: nothing is issued and
\* the unit of work's result is the call's.
Reused(res) == [ops |-> <<>>, out |-> res]

\* The innermost WithTransaction call ends after its unit of work has: on the
\* reuse path with the unit of work's result, on the new-transaction path
\* through the deferred functions.  Its result goes to the application, or to
\* the unit of work that called it, which a panic unwinds.
WithTransactionEnds(co) ==
  /\ stack # <<>>
  /\ LET n == Len(stack)
         top == stack[n]
         d == IF top.path = "new" THEN Deferred(top.res, co)
              ELSE Reused(top.res)
         ops == [i \in 1..Len(d.ops) |->
                   [Ev(d.ops[i], n) EXCEPT !.tx = top.tx, !.ok = (co = "ok")]]
         exit == [Ev("Exit", n) EXCEPT !.tag = top.path, !.tx = top.tx,
                                       !.uow = top.res, !.out = d.out]
     IN /\ top.st = "done"
        /\ top.path = "new" \/ co = "ok"
        /\ events' = events \o ops \o SpanFinish(n, top.span, d.out) \o << exit >>
        /\ IF n = 1
           THEN /\ stack' = <<>>
                /\ txRet' = d.out
           ELSE /\ stack' = IF d.out.kind = "panic"
                            THEN [SubSeq(stack, 1, n - 1) EXCEPT
                                    ![n - 1].st = "done", ![n - 1].res = d.out]
                            ELSE SubSeq(stack, 1, n - 1)
                /\ UNCHANGED txRet
  /\ UNCHANGED <<dbvars, handed, ctxHeap, lockvars>>

\* The singleton as one GetConnection(c) call leaves it when the
\* collaborators answer oc.
Connected(c, oc) ==
  LET r == InitBody(c, oc)
      stored == [Instance |-> IF r.opened /\ r.store THEN 1 ELSE 0, Error |-> r.err]
  IN /\ conn = stored
     /\ activeConfig = c
     /\ dbConnOnce = [done |-> 1, m |-> 0]
     /\ handles = IF r.opened THEN << r.h >> ELSE <<>>
     /\ crashed = FALSE
     /\ held = [t \in Threads |-> NilConn]
     /\ pc = [t \in Threads |-> "idle"]
     /\ arg = [t \in Threads |-> ZeroConfig]
     /\ lastRet = Returned("GetConnection", c, stored.Instance, stored.Error)
     /\ calls = 1
     /\ resets = 0
     /\ hist = [FreshHist EXCEPT !.inits = 1, !.stored = 1, !.first = c,
                                 !.results = {stored},
                                 !.failure = IF r.err \in ConnectivityErrors
                                             THEN r.err ELSE Nil]

\* The transaction helper starts with the singleton never connected, or
\* connected by one call.
TxInit ==
  /\ \/ Init
     \/ \E c \in ValidConfigs : \E oc \in RaceOutcomes \cup
                                  { o \in InitOutcomes : o.open = "ok" /\ o.raw = "ok"
                                                         /\ o.replica = "ok" } :
          Connected(c, oc)
  /\ stack = <<>>
  /\ events = <<>>
  /\ txRet = NoRes
  /\ handed = {}
  /\ ctxHeap = <<>>
  /\ connMu = [w |-> FALSE, r |-> 0]
  /\ rd = [t \in Threads |-> NoRead]
  /\ rst = "idle"

TxNext ==
  \/ \E ctx \in TxContexts : WithTransaction(ctx)
  \/ \E how \in {"received", "fresh"} : UowCallsWithTransaction(how)
  \/ WithTransactionReadsConfig
  \/ WithTransactionStartsSpan
  \/ \E bo \in DriverOutcomes : WithTransactionBegins(bo)
  \/ \E e \in {Nil} \cup UowErrors : UowReturns(e)
  \/ \E p \in PanicValues : UowPanics(p)
  \/ \E co \in DriverOutcomes : WithTransactionEnds(co)

TxSpec == TxInit /\ [][TxNext]_vars

(***************************************************************************)
(* WithTransaction over a singleton whose initializer stored a handle      *)
(* together with an error.                                                 *)
(***************************************************************************)
\* One GetConnection call has run: gorm.Open worked, then db.DB() failed in
\* applyPoolConfig or the replica registration failed.
DegradedInit ==
  /\ \E c \in ValidConfigs : \E oc \in InitOutcomes :
       /\ oc.open = "ok"
       /\ oc.raw \in {"ok", "err"}
       /\ oc.tracing = "ok"
       /\ InitBody(c, oc).err \in {ErrPool, ErrReplica}
       /\ Connected(c, oc)
  /\ stack = <<>>
  /\ events = <<>>
  /\ txRet = NoRes
  /\ handed = {}
  /\ ctxHeap = <<>>
  /\ connMu = [w |-> FALSE, r |-> 0]
  /\ rd = [t \in Threads |-> NoRead]
  /\ rst = "idle"

DegradedSpec == DegradedInit /\ [][TxNext]_vars

(***************************************************************************)
(* WithTransaction when the application keeps a context that a unit of     *)
(* work received and passes it to WithTransaction once the call that made  *)
(* it has returned, or hands it to another goroutine that calls            *)
(* WithTransaction with it.                                                *)
(***************************************************************************)
\* The context the unit of work at depth d of the logged call received.
KeptContext(evs, d) ==
  evs[CHOOSE u \in EventsOf(evs, "Uow") : evs[u].depth = d].ctx

\* What the log keeps of the previous call when the application calls with
\* the context kept from depth d: the Begin calls up to the transaction of
\* that context and the spans started, which number the later ones, and the
\* Commit or Rollback issued on that transaction.
KeptCall(evs, d) ==
  LET k == KeptContext(evs, d).h.tx
      Kept(e) == \/ e.op = "Begin" /\ e.tx <= k
                 \/ e.op = "SpanStart"
                 \/ e.op \in {"Commit", "Rollback"} /\ e.tx = k
      sel == SelectSeq(evs, Kept)
  IN [i \in 1..Len(sel) |->
        [Ev(sel[i].op, 0) EXCEPT !.tx = sel[i].tx, !.span = sel[i].span,
                                 !.ok = sel[i].ok, !.target = sel[i].target]]

\* The application calls WithTransaction(ctx, fn) with the context kept from
\* depth d of its previous call: the call resolves its handle.
WithTransactionKept(d) ==
  /\ stack = <<>>
  /\ \E u \in EventsOf(events, "Uow") : events[u].depth = d
  /\ \A e \in EventsOf(events, "Enter") : events[e].tag # "kept"
  /\ LET r == Entered(KeptCall(events, d), KeptContext(events, d), "kept")
     IN /\ events' = r.evs
        /\ stack' = r.frames
        /\ txRet' = r.out
  /\ UNCHANGED <<dbvars, handed, ctxHeap, lockvars>>

\* Another goroutine calls WithTransaction(ctx, fn) with the context the unit
\* of work at depth d received, at any moment from then on: while that unit
\* of work runs, while or after the call that made the context commits or
\* rolls back.  Such a context holds the handle Begin returned, so
\* GetFromContext reads nothing shared and the call takes the reuse path
\* (transaction.go:34-36): it issues no Begin, invokes its unit of work at
\* once and returns what that returns, e.  handed records the call: the
\* context, the transaction of its handle, the Commit and Rollback calls
\* issued on that transaction before the unit of work was invoked, and the
\* result.  Nothing that unit of work does is followed.
WithTransactionElsewhere(d, e) ==
  /\ \E u \in EventsOf(events, "Uow") : events[u].depth = d
  /\ handed = {}
  /\ LET ctx == KeptContext(events, d)
         dbInstance == GetFromContext(ctx)
         ended == { events[k].op : k \in EventsOn(events, "Commit", dbInstance.tx)
                                      \cup EventsOn(events, "Rollback", dbInstance.tx) }
     IN /\ ~IsNil(dbInstance)
        /\ isTransaction(dbInstance)
        /\ handed' = { [ctx |-> ctx, tx |-> dbInstance.tx, begins |-> 0, ended |-> ended,
                        out |-> Reused(Return(e)).out] }
  /\ UNCHANGED <<stack, events, txRet>>
  /\ UNCHANGED <<dbvars, ctxHeap, lockvars>>

\* The singleton is connected, without tracing.
KeptInit ==
  /\ \E c \in ValidConfigs :
       /\ ~c.EnableTracing
       /\ Connected(c, [open |-> "ok", raw |-> "ok", replica |-> "ok", tracing |-> "ok"])
  /\ stack = <<>>
  /\ events = <<>>
  /\ txRet = NoRes
  /\ handed = {}
  /\ ctxHeap = <<>>
  /\ connMu = [w |-> FALSE, r |-> 0]
  /\ rd = [t \in Threads |-> NoRead]
  /\ rst = "idle"

\* The application's first call.
FirstWithTransaction(ctx) ==
  /\ events = <<>>
  /\ WithTransaction(ctx)

\* One call, then one call with a context kept from it, and one call of
\* another goroutine with a context handed to it.  Tracing is off, so no call
\* starts a span.
KeptNext ==
  \/ \E ctx \in TxContexts : FirstWithTransaction(ctx)
  \/ \E d \in 1..MaxDepth : WithTransactionKept(d)
  \/ \E d \in 1..MaxDepth : WithTransactionElsewhere(d, Nil)
  \/ \E how \in {"received", "fresh"} : UowCallsWithTransaction(how)
  \/ WithTransactionReadsConfig
  \/ \E bo \in DriverOutcomes : WithTransactionBegins(bo)
  \/ \E e \in {Nil} \cup UowErrors : UowReturns(e)
  \/ \E p \in PanicValues : UowPanics(p)
  \/ \E co \in DriverOutcomes : WithTransactionEnds(co)

KeptSpec == KeptInit /\ [][KeptNext]_vars

(***************************************************************************)
(* One WithTransaction call of the application, with its nested calls,     *)
(* while other goroutines reset the singleton and connect it again.        *)
(***************************************************************************)
RacingInit ==
  /\ \E c \in RaceConfigs :
       Connected(c, [open |-> "ok", raw |-> "ok", replica |-> "ok", tracing |-> "ok"])
  /\ stack = <<>>
  /\ events = <<>>
  /\ txRet = NoRes
  /\ handed = {}
  /\ ctxHeap = <<>>
  /\ connMu = [w |-> FALSE, r |-> 0]
  /\ rd = [t \in Threads |-> NoRead]
  /\ rst = "idle"

\* The context of the application's call: a plain one, so that every call
\* of the nest that does not receive a transaction resolves the singleton's
\* handle.
RacingContexts == { Background }

\* The reconnecting goroutine's collaborators all work.
ConnectOutcomes == { oc \in RaceOutcomes : oc.open = "ok" }

\* The other goroutines reset the singleton and call GetConnection at any
\* moment of the application's call: neither has a precondition.
RacingNext ==
  \/ \E ctx \in RacingContexts : FirstWithTransaction(ctx)
  \/ \E how \in {"received", "fresh"} : UowCallsWithTransaction(how)
  \/ WithTransactionReadsConfig
  \/ WithTransactionStartsSpan
  \/ \E bo \in DriverOutcomes : WithTransactionBegins(bo)
  \/ UowReturns(Nil)
  \/ WithTransactionEnds("ok")
  \/ ResetConnection("ok")
  \/ ResetReturns
  \/ \E c \in RaceConfigs : GetConnection(1, c)
  \/ OnceLock(1)
  \/ OnceSlowCheck(1)
  \/ InitSetConfig(1)
  \/ \E oc \in ConnectOutcomes : InitRun(1, oc)
  \/ InitStore(1)
  \/ OnceStore(1)
  \/ OnceUnlock(1)
  \/ Snapshot(1)

RacingSpec == RacingInit /\ [][RacingNext]_vars

(***************************************************************************)
(* Contexts as the application builds them.  context.WithValue allocates a *)
(* node that points to its parent; ctxHeap[i] is node i and 0 is           *)
(* context.Background().  A lookup walks from a node towards the root and  *)
(* stops at the first node with the key.  The keys are dbContextKey ("db") *)
(* and the tracer's span key ("span").                                     *)
(***************************************************************************)
CtxIds == 0..Len(ctxHeap)

WithValue_InPlace(heap, parent, key, val) ==
  IF parent = 0 THEN Append(heap, [parent |-> 0, key |-> key, val |-> val])
  ELSE Append([heap EXCEPT ![parent] = [@ EXCEPT !.key = key, !.val = val]],
              [parent |-> parent, key |-> key, val |-> val])

WithValue_Detached(heap, parent, key, val) ==
  Append(heap, [parent |-> 0, key |-> key, val |-> val])

\* context.WithValue(parent, key, val): the heap with the new node, whose id
\* is its length.
WithValue(heap, parent, key, val) ==
  Append(heap, [parent |-> parent, key |-> key, val |-> val])

RECURSIVE Value(_, _, _)
\* ctx.Value(key): found, and the value of the innermost node with the key.
Value(heap, id, key) ==
  IF id = 0 THEN [found |-> FALSE, val |-> 0]
  ELSE IF heap[id].key = key THEN [found |-> TRUE, val |-> heap[id].val]
  ELSE Value(heap, heap[id].parent, key)

\* What the package reads of a context: the *gorm.DB under dbContextKey
\* (has: the type assertion succeeded) and the active span.
Flat(heap, id) ==
  LET db == Value(heap, id, "db")
      sp == Value(heap, id, "span")
  IN [has |-> db.found,
      h |-> IF db.found THEN db.val ELSE NilRef,
      span |-> IF sp.found THEN sp.val ELSE 0]

\* The handles the application attaches to a context: nil, one of its own,
\* the singleton's when there is one.
Attachable ==
  {NilRef, ExternalRef} \cup
  (IF conn.Instance # 0 THEN {SingletonRef(conn.Instance)} ELSE {})

\* What a context function returned: op and the context id it was called
\* with, the handle h and the context id made, kind "panic" when it panicked.
Observed(op, id, kind, h, made) ==
  [op |-> op, cfg |-> ZeroConfig, kind |-> kind, Instance |-> 0, Error |-> Nil,
   ctx |-> id, h |-> h, made |-> made]

\* The application calls SetFromContext(ctx, db) on one of its contexts.
SetFromContextCall(id, db) ==
  /\ id \in CtxIds
  /\ db \in Attachable
  /\ Len(ctxHeap) < MaxCtx
  /\ ctxHeap' = WithValue(ctxHeap, id, "db", db)
  /\ lastRet' = Observed("SetFromContext", id, "return", db, Len(ctxHeap) + 1)
  /\ UNCHANGED <<conn, activeConfig, dbConnOnce, handles, crashed, held, pc, arg, calls, resets,
                 hist, stack, events, txRet, handed, lockvars>>

\* The application starts a span on one of its contexts: StartSpan stores the
\* span in a derived context.
StartSpan(id) ==
  /\ id \in CtxIds
  /\ Len(ctxHeap) < MaxCtx
  /\ ctxHeap' = WithValue(ctxHeap, id, "span", Len(ctxHeap) + 1)
  /\ lastRet' = Observed("StartSpan", id, "return", NilRef, Len(ctxHeap) + 1)
  /\ UNCHANGED <<conn, activeConfig, dbConnOnce, handles, crashed, held, pc, arg, calls, resets,
                 hist, stack, events, txRet, handed, lockvars>>

WithContext_StoresUnbound(heap, id, db) ==
  IF IsNil(db) THEN [kind |-> "panic", heap |-> heap, h |-> NilRef]
  ELSE [kind |-> "return", heap |-> WithValue(heap, id, "db", db),
        h |-> [db EXCEPT !.bound = id]]

\* WithContext(ctx, db): dbCtx := db.WithContext(ctx), a session of db that
\* carries ctx (a nil db is dereferenced: panic), attached to a context
\* derived from ctx and returned with it.
WithContext(heap, id, db) ==
  IF IsNil(db) THEN [kind |-> "panic", heap |-> heap, h |-> NilRef]
  ELSE LET dbCtx == [db EXCEPT !.bound = id]
       IN [kind |-> "return", heap |-> WithValue(heap, id, "db", dbCtx), h |-> dbCtx]

\* The application calls WithContext(ctx, db) on one of its contexts.
WithContextCall(id, db) ==
  /\ id \in CtxIds
  /\ db \in Attachable
  /\ Len(ctxHeap) < MaxCtx
  /\ LET r == WithContext(ctxHeap, id, db)
     IN /\ ctxHeap' = r.heap
        /\ lastRet' = Observed("WithContext", id, r.kind, r.h, Len(r.heap))
  /\ UNCHANGED <<conn, activeConfig, dbConnOnce, handles, crashed, held, pc, arg, calls, resets,
                 hist, stack, events, txRet, handed, lockvars>>

MustGetFromContext_ReturnsNil(ctx) == [kind |-> "return", h |-> GetFromContext(ctx)]

\* MustGetFromContext: the handle GetFromContext finds, a panic when it is nil.
MustGetFromContext(ctx) ==
  LET db == GetFromContext(ctx)
  IN IF IsNil(db) THEN [kind |-> "panic", h |-> NilRef]
     ELSE [kind |-> "return", h |-> db]

\* The application calls MustGetFromContext(ctx) on one of its contexts.
MustGetFromContextCall(id) ==
  /\ id \in CtxIds
  /\ LET r == MustGetFromContext(Flat(ctxHeap, id))
     IN lastRet' = Observed("MustGetFromContext", id, r.kind, r.h, id)
  /\ UNCHANGED <<conn, activeConfig, dbConnOnce, handles, crashed, held, pc, arg, calls, resets,
                 hist, stack, events, txRet, handed, ctxHeap, lockvars>>

\* The application calls GetFromContext(ctx) on one of its contexts.
GetFromContextCall(id) ==
  /\ id \in CtxIds
  /\ lastRet' = Observed("GetFromContext", id, "return",
                         GetFromContext(Flat(ctxHeap, id)), id)
  /\ UNCHANGED <<conn, activeConfig, dbConnOnce, handles, crashed, held, pc, arg, calls, resets,
                 hist, stack, events, txRet, handed, ctxHeap, lockvars>>

\* Context propagation.
CtxNext ==
  \/ \E id \in 0..MaxCtx : \E db \in {NilRef, ExternalRef, SingletonRef(1)} :
       SetFromContextCall(id, db)
  \/ \E id \in 0..MaxCtx : StartSpan(id)
  \/ \E id \in 0..MaxCtx : GetFromContextCall(id)
  \/ \E id \in 0..MaxCtx : MustGetFromContextCall(id)
  \/ \E id \in 0..MaxCtx : \E db \in {NilRef, ExternalRef, SingletonRef(1)} :
       WithContextCall(id, db)

\* The contexts start with only context.Background(), over a singleton
\* never connected or connected by one call whose collaborators all worked.
CtxInit ==
  /\ \/ Init
     \/ \E c \in ValidConfigs :
          /\ c.ReplicasDSN = <<>>
          /\ Connected(c, [open |-> "ok", raw |-> "ok", replica |-> "ok", tracing |-> "ok"])
  /\ stack = <<>>
  /\ events = <<>>
  /\ txRet = NoRes
  /\ handed = {}
  /\ ctxHeap = <<>>
  /\ connMu = [w |-> FALSE, r |-> 0]
  /\ rd = [t \in Threads |-> NoRead]
  /\ rst = "idle"

CtxSpec == CtxInit /\ [][CtxNext]_vars

(***************************************************************************)
(* Ping (db.go:162-175) on the application's contexts.                     *)
(***************************************************************************)
ProbeOutcomes == {"ok", "err"}

\* What db.DB() answers for a handle: for the singleton's handle what it
\* answered to the initializer, for a handle of the application ro.
RawOf(db, ro) == IF db.kind = "singleton" THEN handles[db.id].raw ELSE ro

\* Ping: ErrNoDatabase without a handle, the error of db.DB() (the one
\* applyPoolConfig returns) when it fails, ErrNoDatabase when it yields no
\* *sql.DB, else the result of PingContext, po.
Ping(ctx, ro, po) ==
  LET db == GetFromContext(ctx)
  IN IF IsNil(db) THEN ErrNoDatabase
     ELSE IF RawOf(db, ro) = "err" THEN ErrPool
     ELSE IF RawOf(db, ro) = "nil" THEN ErrNoDatabase
     ELSE IF po = "ok" THEN Nil ELSE ErrPing

\* The application calls Ping(ctx) on one of its contexts; the record keeps
\* the handle resolved, what db.DB() answers for it and the probe's answer.
PingCall(id, ro, po) ==
  /\ id \in CtxIds
  /\ LET ctx == Flat(ctxHeap, id)
         db == GetFromContext(ctx)
     IN lastRet' = [op |-> "Ping", cfg |-> ZeroConfig, kind |-> "return", Instance |-> 0,
                    Error |-> Ping(ctx, ro, po), ctx |-> id, h |-> db, made |-> id,
                    raw |-> IF IsNil(db) THEN "nil" ELSE RawOf(db, ro), probe |-> po]
  /\ UNCHANGED <<conn, activeConfig, dbConnOnce, handles, crashed, held, pc, arg, calls, resets,
                 hist, stack, events, txRet, handed, ctxHeap, lockvars>>

\* The singleton never connected, or as one GetConnection call left it when
\* gorm.Open worked, whatever db.DB() answered; only context.Background()
\* exists.
PingInit ==
  /\ \/ Init
     \/ \E c \in ValidConfigs : \E raw \in RawKinds :
          /\ c.ReplicasDSN = <<>>
          /\ Connected(c, [open |-> "ok", raw |-> raw, replica |-> "ok", tracing |-> "ok"])
  /\ stack = <<>>
  /\ events = <<>>
  /\ txRet = NoRes
  /\ handed = {}
  /\ ctxHeap = <<>>
  /\ connMu = [w |-> FALSE, r |-> 0]
  /\ rd = [t \in Threads |-> NoRead]
  /\ rst = "idle"

PingNext ==
  \/ \E id \in 0..MaxCtx : \E db \in {NilRef, ExternalRef, SingletonRef(1)} :
       SetFromContextCall(id, db)
  \/ \E id \in 0..MaxCtx : \E ro \in RawKinds : \E po \in ProbeOutcomes :
       PingCall(id, ro, po)

PingSpec == PingInit /\ [][PingNext]_vars

(***************************************************************************)
(* Every consumer of GetFromContext on the application's contexts:         *)
(* GetFromContext itself, MustGetFromContext, Ping and WithTransaction.    *)
(***************************************************************************)
\* The application attaches a handle to one of its contexts, MaxAttach times
\* at most.
Attach(id, db) ==
  /\ Len(ctxHeap) < MaxAttach
  /\ SetFromContextCall(id, db)

\* The application calls WithTransaction(ctx, fn) on one of its contexts,
\* once.
WithTransactionOn(id) ==
  /\ id \in CtxIds
  /\ events = <<>>
  /\ WithTransaction(Flat(ctxHeap, id))

ConsumerNext ==
  \/ \E id \in 0..MaxCtx : \E db \in {NilRef, ExternalRef, SingletonRef(1)} :
       Attach(id, db)
  \/ \E id \in 0..MaxCtx : GetFromContextCall(id)
  \/ \E id \in 0..MaxCtx : MustGetFromContextCall(id)
  \/ \E id \in 0..MaxCtx : \E po \in ProbeOutcomes : PingCall(id, "ok", po)
  \/ \E id \in 0..MaxCtx : WithTransactionOn(id)
  \/ WithTransactionReadsConfig
  \/ WithTransactionStartsSpan
  \/ \E bo \in DriverOutcomes : WithTransactionBegins(bo)
  \/ UowReturns(Nil)
  \/ \E co \in DriverOutcomes : WithTransactionEnds(co)

ConsumerSpec == CtxInit /\ [][ConsumerNext]_vars

(***************************************************************************)
(* connMu's critical sections statement by statement.  The actions above   *)
(* take ResetConnection and each read of the singleton as one step because *)
(* they run under connMu; here the lock is a variable, ResetConnection     *)
(* writes conn, activeConfig and dbConnOnce one after the other, and a     *)
(* read copies a struct one half at a time.                                *)
(***************************************************************************)
ReadOps == {"snapshot", "fallback", "config"}

CanRLock_Always(mu) == TRUE

\* connMu.RLock() proceeds when no writer holds the lock.
CanRLock(mu) == ~mu.w

CanLock_IgnoresReaders(mu) == ~mu.w

\* connMu.Lock() proceeds when nobody holds the lock.
CanLock(mu) == ~mu.w /\ mu.r = 0

\* connMu.RLock() of GetConnection's snapshot (db.go:153), of GetFromContext's
\* fallback (context.go:27) and of GetActiveConfig (db.go:36).
ReadLock(t, op) ==
  /\ rd[t].at = "idle"
  /\ CanRLock(connMu)
  /\ connMu' = [connMu EXCEPT !.r = @ + 1]
  /\ rd' = [rd EXCEPT ![t] = [NoRead EXCEPT !.op = op, !.at = "locked"]]
  /\ UNCHANGED <<dbvars, txvars, ctxHeap, rst>>

\* The first half of result := conn, instance := conn.Instance, and the first
\* half of cfg := activeConfig.
ReadFirst(t) ==
  /\ rd[t].at = "locked"
  /\ rd' = [rd EXCEPT ![t] =
             IF rd[t].op = "config"
             THEN [rd[t] EXCEPT !.at = "first",
                                !.cfg.PrimaryDSN = activeConfig.PrimaryDSN,
                                !.cfg.ReplicasDSN = activeConfig.ReplicasDSN]
             ELSE [rd[t] EXCEPT !.at = "first", !.conn.Instance = conn.Instance]]
  /\ UNCHANGED <<dbvars, txvars, ctxHeap, connMu, rst>>

\* The second half of result := conn and of cfg := activeConfig.
ReadSecond(t) ==
  /\ rd[t].at = "first"
  /\ rd[t].op \in {"snapshot", "config"}
  /\ rd' = [rd EXCEPT ![t] =
             IF rd[t].op = "config"
             THEN [rd[t] EXCEPT !.at = "second",
                                !.cfg.knobs = activeConfig.knobs,
                                !.cfg.EnableTracing = activeConfig.EnableTracing]
             ELSE [rd[t] EXCEPT !.at = "second", !.conn.Error = conn.Error]]
  /\ UNCHANGED <<dbvars, txvars, ctxHeap, connMu, rst>>

\* connMu.RUnlock(); the read holds what it returns.
ReadUnlock(t) ==
  /\ \/ rd[t].at = "second"
     \/ rd[t].at = "first" /\ rd[t].op = "fallback"
  /\ connMu' = [connMu EXCEPT !.r = @ - 1]
  /\ rd' = [rd EXCEPT ![t].at = "ret"]
  /\ UNCHANGED <<dbvars, txvars, ctxHeap, rst>>

\* The read returns to its caller.
ReadReturns(t) ==
  /\ rd[t].at = "ret"
  /\ rd' = [rd EXCEPT ![t] = NoRead]
  /\ UNCHANGED <<dbvars, txvars, ctxHeap, connMu, rst>>

\* connMu.Lock() of ResetConnection (db.go:180).
ResetLock ==
  /\ rst = "idle"
  /\ CanLock(connMu)
  /\ connMu' = [connMu EXCEPT !.w = TRUE]
  /\ rst' = "locked"
  /\ UNCHANGED <<dbvars, txvars, ctxHeap, rd>>

\* The close of the stored handle (db.go:182-189).
ResetClose ==
  /\ rst = "locked"
  /\ handles' = IF conn.Instance # 0 /\ CloseAttempted(handles[conn.Instance])
                THEN [handles EXCEPT ![conn.Instance].closed = @ + 1]
                ELSE handles
  /\ rst' = "closed"
  /\ UNCHANGED <<conn, activeConfig, dbConnOnce, crashed, held, pc, arg, lastRet, calls, resets,
                 hist, txvars, ctxHeap, connMu, rd>>

\* conn = DBConn{}: the handle word.
ResetClearInstance ==
  /\ rst = "closed"
  /\ conn' = [conn EXCEPT !.Instance = 0]
  /\ rst' = "instance"
  /\ UNCHANGED <<activeConfig, dbConnOnce, handles, crashed, held, pc, arg, lastRet, calls,
                 resets, hist, txvars, ctxHeap, connMu, rd>>

\* conn = DBConn{}: the error word.
ResetClearError ==
  /\ rst = "instance"
  /\ conn' = [conn EXCEPT !.Error = Nil]
  /\ rst' = "error"
  /\ UNCHANGED <<activeConfig, dbConnOnce, handles, crashed, held, pc, arg, lastRet, calls,
                 resets, hist, txvars, ctxHeap, connMu, rd>>

\* activeConfig = Config{}
ResetClearConfig ==
  /\ rst = "error"
  /\ activeConfig' = ZeroConfig
  /\ rst' = "config"
  /\ UNCHANGED <<conn, dbConnOnce, handles, crashed, held, pc, arg, lastRet, calls, resets,
                 hist, txvars, ctxHeap, connMu, rd>>

\* dbConnOnce = sync.Once{}, one word at a time.
ResetClearOnce(w) ==
  /\ \/ rst = "config"
     \/ \E v \in OnceWords \ {w} : rst = Stored(v)
  /\ dbConnOnce' = [dbConnOnce EXCEPT ![w] = 0]
  /\ rst' = IF rst = "config" THEN Stored(w) ELSE "once"
  /\ UNCHANGED <<conn, activeConfig, handles, crashed, held, pc, arg, lastRet, calls, resets,
                 hist, txvars, ctxHeap, connMu, rd>>

\* defer connMu.Unlock()
ResetUnlock ==
  /\ rst = "once"
  /\ connMu' = [connMu EXCEPT !.w = FALSE]
  /\ rst' = "done"
  /\ UNCHANGED <<dbvars, txvars, ctxHeap, rd>>

\* The singleton as one GetConnection call left it, whatever the
\* collaborators answered, or never connected.
LockInit ==
  /\ \/ Init
     \/ \E c \in ValidConfigs : \E oc \in InitOutcomes : Connected(c, oc)
  /\ stack = <<>>
  /\ events = <<>>
  /\ txRet = NoRes
  /\ handed = {}
  /\ ctxHeap = <<>>
  /\ connMu = [w |-> FALSE, r |-> 0]
  /\ rd = [t \in Threads |-> NoRead]
  /\ rst = "idle"

\* Readers of the singleton against one ResetConnection.
LockNext ==
  \/ \E t \in Threads :
       \/ \E op \in ReadOps : ReadLock(t, op)
       \/ ReadFirst(t)
       \/ ReadSecond(t)
       \/ ReadUnlock(t)
       \/ ReadReturns(t)
  \/ ResetLock
  \/ ResetClose
  \/ ResetClearInstance
  \/ ResetClearError
  \/ ResetClearConfig
  \/ \E w \in OnceWords : ResetClearOnce(w)
  \/ ResetUnlock

LockSpec == LockInit /\ [][LockNext]_vars

(***************************************************************************)
(* Properties of the connection singleton.                                 *)
(***************************************************************************)

\* C1: while no reset has overlapped a call (every call of the epoch began
\* after the last reset had returned with no call in flight), the initializer
\* body has started at most once, a call reaches its snapshot only after that
\* one body has stored its result, and every pair returned is the same pair,
\* the one the singleton holds.
C1_SingletonIdempotence ==
  ~hist.dirty =>
    /\ hist.inits <= 1
    /\ hist.results \subseteq {conn}
    /\ (hist.results # {} \/ \E t \in Threads : pc[t] = "snapshot")
         => (hist.inits = 1 /\ hist.stored = 1)

\* C7: between two consecutive resets (and before the first) the initializer
\* body starts at most once, and a call that began after a reset returned
\* reaches its snapshot only when the body has run once since that reset.
C7_ResetRearms ==
  /\ hist.inits <= 1
  /\ \A t \in Threads \ hist.stale :
       (resets > 0 /\ pc[t] = "snapshot") => hist.inits = 1

\* C8 as the code has it: a reset goes through to its return whatever the
\* close did; it has called Close exactly once on the stored handle when that
\* handle's DB() yields a *sql.DB, and on no handle otherwise, before it
\* clears the state; when it returns the singleton is {nil handle, nil
\* error, zero config}, and the gate is fresh when no call held the gate's
\* mutex (no initializer was in flight) while the reset ran.
C8_ResetClears ==
  [][/\ resets' = resets + 1 =>
          /\ lastRet'.kind = "return"
          /\ rst' # "idle"
          /\ conn' = NilConn
          /\ activeConfig' = ZeroConfig
          /\ \A i \in 1..Len(handles) :
               handles'[i].closed = handles[i].closed +
                 (IF i = conn.Instance /\ handles[i].raw = "ok" THEN 1 ELSE 0)
     /\ lastRet'.op = "ResetConnection" =>
          /\ lastRet'.kind = "return"
          /\ conn' = NilConn
          /\ activeConfig' = ZeroConfig
          /\ handles' = handles
          /\ ~hist.racing => dbConnOnce' = FreshOnce]_vars

\* C8 as claimed: Close is called exactly once on every stored handle.
C8_ResetClosesEveryStoredHandle ==
  [][/\ resets' = resets + 1 =>
          /\ lastRet'.kind = "return"
          /\ rst' # "idle"
          /\ conn' = NilConn
          /\ activeConfig' = ZeroConfig
          /\ \A i \in 1..Len(handles) :
               handles'[i].closed = handles[i].closed +
                 (IF i = conn.Instance THEN 1 ELSE 0)
     /\ lastRet'.op = "ResetConnection" =>
          /\ lastRet'.kind = "return"
          /\ conn' = NilConn
          /\ activeConfig' = ZeroConfig
          /\ handles' = handles
          /\ ~hist.racing => dbConnOnce' = FreshOnce]_vars

\* A reset whose Close panicked has just returned, no initializer was in
\* flight, and the state is cleared.
C8_Witness ==
  /\ lastRet.op = "ResetConnection"
  /\ hist.close = "panic"
  /\ ~hist.racing
  /\ conn = NilConn
  /\ dbConnOnce = FreshOnce
  /\ \E i \in 1..Len(handles) : handles[i].closed = 1

\* C9: a GetConnection call with an empty primary target returns
\* {nil, ErrInvalidConfig} and changes nothing of the singleton: the gate, the
\* stored pair, the active configuration and the handles are as before.
C9_InvalidConfigShortCircuit ==
  [][(lastRet'.op = "GetConnection" /\ lastRet'.cfg.PrimaryDSN = "") =>
       /\ lastRet'.Instance = 0
       /\ lastRet'.Error = ErrInvalidConfig
       /\ UNCHANGED <<conn, activeConfig, dbConnOnce, handles, pc>>]_vars

\* After a call that failed validation, a call with a valid configuration ran
\* the initializer and returned its handle with no error.
C9_Witness ==
  /\ hist.afterInvalid
  /\ lastRet.op = "GetConnection"
  /\ lastRet.Instance # 0
  /\ lastRet.Error = Nil
  /\ lastRet.Instance = conn.Instance

\* C10: once a call has armed the gate with c1 (hist.first), a later call
\* runs no initializer for another configuration, and when it takes its
\* snapshot the singleton holds the result produced for c1 and the active
\* configuration is c1.
C10_ConfigFrozen ==
  \A t \in Threads \ hist.stale :
    hist.inits >= 1 =>
      /\ pc[t] \in {"init_cfg", "init_body", "init_store"} => arg[t] = hist.first
      /\ pc[t] = "snapshot" =>
           /\ activeConfig = hist.first
           /\ conn.Instance # 0 => handles[conn.Instance].cfg = hist.first

(***************************************************************************)
(* Properties of WithTransaction.                                          *)
(***************************************************************************)

\* The outermost call began a transaction and every inner call was made with
\* the context its caller's unit of work received.
ReceivedContextNest ==
  /\ \E i \in EventsOf(events, "Begin") : events[i].depth = 1 /\ events[i].ok
  /\ \A i \in EventsOf(events, "Enter") :
       events[i].depth > 1 => events[i].tag = "received"

\* C2: in a nest whose inner calls all use the context they received, one
\* Begin is issued, by the outermost call; no Commit or Rollback is issued
\* while the nest runs and exactly one, by the outermost call, when it has
\* ended; no inner call issues Begin, Commit or Rollback.
C2_NestingReuse ==
  ReceivedContextNest =>
    /\ Cardinality(EventsOf(events, "Begin")) = 1
    /\ \A i \in 1..Len(events) :
         events[i].op \in {"Begin", "Commit", "Rollback"} => events[i].depth = 1
    /\ Cardinality(EventsOf(events, "Commit") \cup EventsOf(events, "Rollback"))
         = IF stack = <<>> THEN 1 ELSE 0

\* A nest three calls deep has ended with a commit.
C2_Witness ==
  /\ ReceivedContextNest
  /\ stack = <<>>
  /\ \E i \in EventsOf(events, "Enter") : events[i].depth = 3
  /\ txRet = Return(Nil)
  /\ Cardinality(EventsOf(events, "Commit")) = 1

\* C3: a call that began a transaction and whose unit of work panicked with p
\* has attempted one Rollback on that transaction, no Commit, and has
\* panicked with p itself.
C3_PanicSafety ==
  \A i \in EventsOf(events, "Exit") :
    (events[i].tag = "new" /\ events[i].uow.kind = "panic") =>
      /\ Cardinality(EventsOn(events, "Rollback", events[i].tx)) = 1
      /\ EventsOn(events, "Commit", events[i].tx) = {}
      /\ events[i].out = events[i].uow

\* The outermost call's unit of work panicked, the rollback failed, and the
\* panic reached the application.
C3_Witness ==
  /\ stack = <<>>
  /\ txRet \in { Panic(p) : p \in PanicValues }
  /\ \E i \in EventsOf(events, "Exit") :
       /\ events[i].tag = "new"
       /\ events[i].depth = 1
       /\ events[i].uow = txRet
       /\ \E j \in EventsOn(events, "Rollback", events[i].tx) : ~events[j].ok

\* C4: a call that began a transaction and whose unit of work returned a
\* non-nil error E has attempted one Rollback on that transaction, no Commit,
\* and has returned E, also when the rollback failed.
C4_ErrorPassthrough ==
  \A i \in EventsOf(events, "Exit") :
    (events[i].tag = "new" /\ events[i].uow.kind = "return" /\ events[i].uow.val # Nil) =>
      /\ Cardinality(EventsOn(events, "Rollback", events[i].tx)) = 1
      /\ EventsOn(events, "Commit", events[i].tx) = {}
      /\ events[i].out = events[i].uow

\* The outermost call's unit of work returned E1, the rollback failed, and
\* the application received E1.
C4_Witness ==
  /\ stack = <<>>
  /\ txRet = Return("E1")
  /\ \E i \in EventsOf(events, "Exit") :
       /\ events[i].tag = "new"
       /\ events[i].depth = 1
       /\ events[i].uow = Return("E1")
       /\ \E j \in EventsOn(events, "Rollback", events[i].tx) : ~events[j].ok

\* C5: a call that began a transaction and whose unit of work returned nil
\* has issued one Commit on that transaction, no Rollback, and has returned
\* the Commit's error: nil when it succeeded.
C5_CommitOnNil ==
  \A i \in EventsOf(events, "Exit") :
    (events[i].tag = "new" /\ events[i].uow = Return(Nil)) =>
      /\ Cardinality(EventsOn(events, "Commit", events[i].tx)) = 1
      /\ EventsOn(events, "Rollback", events[i].tx) = {}
      /\ \A j \in EventsOn(events, "Commit", events[i].tx) :
           events[i].out = Return(IF events[j].ok THEN Nil ELSE ErrCommit)

\* The outermost call's unit of work returned nil, the commit failed, and the
\* application received the commit's error.
C5_Witness ==
  /\ stack = <<>>
  /\ txRet = Return(ErrCommit)
  /\ \E i \in EventsOf(events, "Exit") :
       /\ events[i].tag = "new"
       /\ events[i].depth = 1
       /\ events[i].uow = Return(Nil)
       /\ \E j \in EventsOn(events, "Commit", events[i].tx) : ~events[j].ok

\* C6: a WithTransaction call made with a context that carries no handle
\* while the singleton holds none returns ErrNoDatabase at once: the next
\* event is its own return, so no unit of work was invoked and no Begin,
\* Commit, Rollback or span was issued for it.
C6_NoDatabase ==
  \A i \in EventsOf(events, "Enter") :
    (~(events[i].ctx.has /\ events[i].ctx.h # NilRef) /\ conn.Instance = 0) =>
      /\ i < Len(events)
      /\ events[i + 1].op = "Exit"
      /\ events[i + 1].depth = events[i].depth
      /\ events[i + 1].out = Return(ErrNoDatabase)

\* The application called WithTransaction with a bare context while the
\* singleton held no handle, and received ErrNoDatabase.
C6_Witness ==
  /\ conn.Instance = 0
  /\ stack = <<>>
  /\ Len(events) = 2
  /\ events[1].op = "Enter"
  /\ ~events[1].ctx.has
  /\ txRet = Return(ErrNoDatabase)

(***************************************************************************)
(* Properties of context propagation.                                      *)
(***************************************************************************)

\* C11 as the code has it: GetFromContext returns the value attached to the
\* context whenever one is attached, a nil handle included; the singleton's
\* handle when nothing is attached and the singleton holds one; nil when
\* nothing is attached and the singleton holds none.
C11_ContextPrecedence ==
  lastRet.op = "GetFromContext" =>
    LET a == Value(ctxHeap, lastRet.ctx, "db")
    IN lastRet.h = IF a.found THEN a.val
                   ELSE IF conn.Instance # 0 THEN SingletonRef(conn.Instance)
                   ELSE NilRef

\* C11 as claimed: an attached handle is returned; with no handle attached
\* the singleton's handle is returned; nil is returned only when the context
\* carries no handle and the singleton holds none.
C11_NilOnlyWhenNeither ==
  lastRet.op = "GetFromContext" =>
    LET a == Value(ctxHeap, lastRet.ctx, "db")
        carried == a.found /\ a.val # NilRef
    IN /\ carried => lastRet.h = a.val
       /\ (~carried /\ conn.Instance # 0) => lastRet.h = SingletonRef(conn.Instance)
       /\ lastRet.h = NilRef => (~carried /\ conn.Instance = 0)

\* GetFromContext has returned the application's own handle from a context
\* while the singleton holds another.
C11_Witness ==
  /\ lastRet.op = "GetFromContext"
  /\ conn.Instance # 0
  /\ Value(ctxHeap, lastRet.ctx, "db").found
  /\ lastRet.h = ExternalRef

(***************************************************************************)
(* Properties of the initializer's outcomes.                               *)
(***************************************************************************)

\* C12: when the initializer has stored the tracing error, the singleton
\* holds the opened handle with it: a GetConnection result carrying the
\* tracing error carries a non-nil handle, and GetFromContext on a plain
\* context returns that handle.
C12_TracingFailureKeepsHandle ==
  /\ conn.Error = ErrTracing =>
       /\ conn.Instance # 0
       /\ GetFromContext(Background) = SingletonRef(conn.Instance)
  /\ (lastRet.op = "GetConnection" /\ lastRet.Error = ErrTracing) =>
       lastRet.Instance # 0

\* C13: once an initializer body has stored a connectivity error, a call
\* that begins afterwards (and before any reset) runs no initializer body
\* and, when it takes its snapshot, finds that same error stored.
C13_FailureIsSticky ==
  \A t \in hist.late :
    /\ pc[t] \notin {"init_cfg", "init_body", "init_store", "once_store"}
    /\ pc[t] = "snapshot" => conn.Error = hist.failure

\* The connections gorm.Open has opened on which no Close has been issued.
OpenConnections == { i \in 1..Len(handles) : handles[i].closed = 0 }

\* C14: at most one connection opened by the initializer is open.
C14_AtMostOneOpen == Cardinality(OpenConnections) <= 1

\* C15: when ResetConnection has returned and no call is inside
\* getConnection, a Close has been issued on every connection an initializer
\* opened whose DB() yields the underlying *sql.DB.
C15_ResetLeavesNoLeak ==
  (lastRet.op = "ResetConnection" /\ lastRet.kind = "return" /\ InFlight = {}) =>
    \A i \in 1..Len(handles) : handles[i].raw = "ok" => handles[i].closed >= 1

\* C16: whenever the singleton holds no handle, GetActiveConfig returns the
\* zero-value configuration.
C16_ZeroConfigWithoutHandle ==
  conn.Instance = 0 => GetActiveConfig = ZeroConfig

\* C17: whenever the singleton holds a handle, GetActiveConfig returns the
\* configuration of the GetConnection call whose initializer opened it.
C17_ActiveConfigOfHandle ==
  conn.Instance # 0 => GetActiveConfig = handles[conn.Instance].cfg

\* Every initialization step its configuration asks for has been applied to
\* the handle: the pool knobs, the replica resolver when replicas are
\* configured, tracing when enabled.
FullyInitialized(h) ==
  /\ h.knobs = h.cfg.knobs
  /\ h.replicas = (Len(h.cfg.ReplicasDSN) > 0)
  /\ h.cfg.EnableTracing => h.tracing

\* The handle has no *sql.DB to tune (db.DB() yields nil and no error): no
\* pool knob is set on it, and every other step its configuration asks for
\* has been applied.
InitializedWithoutPool(h) ==
  /\ h.raw = "nil"
  /\ h.knobs = {}
  /\ h.replicas = (Len(h.cfg.ReplicasDSN) > 0)
  /\ h.cfg.EnableTracing => h.tracing

\* C18 as the code has it: a handle the singleton holds with a nil error,
\* and so any handle a GetConnection result carries with a nil error, has had
\* every configured step applied, the pool knobs excepted when db.DB() yields
\* no *sql.DB to set them on.
C18_NoHalfInitializedHandle ==
  /\ (conn.Instance # 0 /\ conn.Error = Nil) =>
       \/ FullyInitialized(handles[conn.Instance])
       \/ InitializedWithoutPool(handles[conn.Instance])
  /\ (lastRet.op = "GetConnection" /\ lastRet.Instance # 0 /\ lastRet.Error = Nil) =>
       \/ FullyInitialized(handles[lastRet.Instance])
       \/ InitializedWithoutPool(handles[lastRet.Instance])

\* C18 as claimed: any handle the singleton holds, which is what a
\* GetConnection result and the GetFromContext fallback hand out, has had
\* every configured step applied.
C18_EveryObservableHandleComplete ==
  /\ GetFromContext(Background) # NilRef =>
       FullyInitialized(handles[GetFromContext(Background).id])
  /\ (lastRet.op = "GetConnection" /\ lastRet.Instance # 0) =>
       FullyInitialized(handles[lastRet.Instance])

\* GetConnection has returned, with a nil error, a handle whose
\* configuration asked for pool knobs, replicas and tracing, and the handle
\* has them all.
C18_Witness ==
  /\ lastRet.op = "GetConnection"
  /\ lastRet.Instance # 0
  /\ lastRet.Error = Nil
  /\ lastRet.cfg.EnableTracing
  /\ lastRet.cfg.ReplicasDSN # <<>>
  /\ lastRet.cfg.knobs # {}
  /\ handles[lastRet.Instance].cfg = lastRet.cfg
  /\ FullyInitialized(handles[lastRet.Instance])

\* C19: a read of the singleton made while ResetConnection runs returns the
\* whole value from before the reset or the whole cleared value: the snapshot
\* is the stored pair or the empty pair, the fallback is the stored handle or
\* nil, and the active configuration is the stored one or the zero one.
C19_ReadsSeeBeforeOrAfter ==
  \A t \in Threads :
    rd[t].at = "ret" =>
      /\ rd[t].op = "snapshot" => rd[t].conn \in hist.results \cup {NilConn}
      /\ rd[t].op = "fallback" =>
            rd[t].conn.Instance \in { x.Instance : x \in hist.results } \cup {0}
      /\ rd[t].op = "config" => rd[t].cfg \in {hist.first, ZeroConfig}

\* A snapshot returned the stored handle with its error while the reset,
\* already called, waited for the lock or ran after it; another returned the
\* cleared pair.
C19_Witness ==
  /\ rst # "idle"
  /\ \E t, u \in Threads :
       /\ rd[t].at = "ret" /\ rd[t].op = "snapshot"
       /\ rd[t].conn.Instance # 0 /\ rd[t].conn.Error # Nil
       /\ rd[u].at = "ret" /\ rd[u].op = "snapshot"
       /\ rd[u].conn = NilConn

\* The keys a context of the application carries.
CtxKeys == {"db", "span"}

\* C20: SetFromContext(ctx, h) makes a new context and leaves ctx as it was:
\* every context that existed answers every key, and GetFromContext, as
\* before the call; the new context answers every other key as ctx does; and
\* GetFromContext on the new context returns h, also when ctx already carried
\* an attachment.
C20_SetFromContextDerives ==
  [][ (lastRet'.op = "SetFromContext" /\ Len(ctxHeap') > Len(ctxHeap)) =>
        LET parent == lastRet'.ctx
            made == lastRet'.made
        IN /\ made \notin CtxIds
           /\ \A i \in CtxIds :
                /\ \A k \in CtxKeys : Value(ctxHeap', i, k) = Value(ctxHeap, i, k)
                /\ \A after \in {Flat(ctxHeap', i)} :
                     GetFromContext(after)' = GetFromContext(Flat(ctxHeap, i))
           /\ \A k \in CtxKeys \ {"db"} :
                Value(ctxHeap', made, k) = Value(ctxHeap, parent, k)
           /\ \A after \in {Flat(ctxHeap', made)} :
                GetFromContext(after)' = lastRet'.h ]_vars

\* SetFromContext was just applied to a context that carries a span and an
\* attachment of its own, with another handle.
C20_Witness ==
  /\ lastRet.op = "SetFromContext"
  /\ lastRet.ctx # 0
  /\ Flat(ctxHeap, lastRet.ctx).has
  /\ Flat(ctxHeap, lastRet.ctx).span # 0
  /\ Flat(ctxHeap, lastRet.ctx).h # lastRet.h
  /\ Flat(ctxHeap, lastRet.made).span = Flat(ctxHeap, lastRet.ctx).span
  /\ GetFromContext(Flat(ctxHeap, lastRet.made)) = lastRet.h

\* C21: MustGetFromContext returns the handle GetFromContext returns on the
\* same context when that handle is not nil, and panics exactly when
\* GetFromContext returns nil.
C21_MustMatchesGet ==
  lastRet.op = "MustGetFromContext" =>
    LET db == GetFromContext(Flat(ctxHeap, lastRet.ctx))
    IN /\ lastRet.kind = "panic" <=> IsNil(db)
       /\ lastRet.kind = "return" => lastRet.h = db

\* MustGetFromContext panicked on a context derived from one that carries a
\* handle, because the innermost attachment is nil.
C21_Witness ==
  /\ lastRet.op = "MustGetFromContext"
  /\ lastRet.kind = "panic"
  /\ lastRet.ctx # 0
  /\ \E i \in CtxIds : ~IsNil(GetFromContext(Flat(ctxHeap, i)))

\* C22: when WithContext(ctx, h) returns (ctx2, h2), h2 is a session of h
\* that carries ctx, GetFromContext(ctx2) returns exactly h2 whatever the
\* singleton holds, and every context that existed, ctx included, answers
\* every key and GetFromContext as before.
C22_WithContextBinds ==
  [][ (lastRet'.op = "WithContext" /\ lastRet'.kind = "return") =>
        /\ lastRet'.made \notin CtxIds
        /\ ~IsNil(lastRet'.h)
        /\ lastRet'.h.bound = lastRet'.ctx
        /\ \A after \in {Flat(ctxHeap', lastRet'.made)} :
             GetFromContext(after)' = lastRet'.h
        /\ \A i \in CtxIds :
             /\ \A k \in CtxKeys : Value(ctxHeap', i, k) = Value(ctxHeap, i, k)
             /\ \A after \in {Flat(ctxHeap', i)} :
                  GetFromContext(after)' = GetFromContext(Flat(ctxHeap, i)) ]_vars

\* WithContext returned a session of a handle of the application while the
\* singleton holds another handle, on a context that already carried an
\* attachment.
C22_Witness ==
  /\ lastRet.op = "WithContext"
  /\ lastRet.kind = "return"
  /\ conn.Instance # 0
  /\ lastRet.h.kind = "external"
  /\ lastRet.ctx # 0
  /\ Flat(ctxHeap, lastRet.ctx).has
  /\ GetFromContext(Flat(ctxHeap, lastRet.made)) = lastRet.h
  /\ GetFromContext(Flat(ctxHeap, lastRet.ctx)) # lastRet.h

\* C23: every Begin that WithTransaction issues, failed ones included, is
\* issued on a session with the write clause and is routed to the primary,
\* never to a replica, whatever handle it is issued on and whether or not
\* the replica resolver is registered on that handle.
C23_BeginOnWriteTarget ==
  \A i \in EventsOf(events, "Begin") :
    /\ events[i].tag = "write"
    /\ events[i].target = "primary"

\* A transaction was begun on the singleton's handle, on which the
\* initializer had registered the replica resolver; it went to the primary
\* and its unit of work was invoked.
C23_Witness ==
  /\ activeConfig.ReplicasDSN # <<>>
  /\ \E i \in EventsOf(events, "Begin") :
       /\ events[i].h.kind = "singleton"
       /\ handles[events[i].h.id].replicas
       /\ events[i].target = "primary"
       /\ events[i].ok
       /\ EventsOn(events, "Uow", events[i].tx) # {}

\* C24: when the Begin of a WithTransaction call fails, the call returns the
\* Begin error at once: its unit of work is never invoked and no Commit or
\* Rollback is issued for that transaction.
C24_BeginErrorReturned ==
  \A i \in EventsOf(events, "Begin") :
    ~events[i].ok =>
      /\ EventsOn(events, "Uow", events[i].tx) = {}
      /\ EventsOn(events, "Commit", events[i].tx) = {}
      /\ EventsOn(events, "Rollback", events[i].tx) = {}
      /\ \E j \in EventsOn(events, "Exit", events[i].tx) :
           /\ j > i
           /\ events[j].depth = events[i].depth
           /\ events[j].out = Return(ErrBegin)
           /\ \A k \in (i + 1)..(j - 1) : events[k].op = "SpanFinish"

\* The application's call on a handle that is not nil and not transactional
\* returned the Begin error.
C24_Witness ==
  /\ stack = <<>>
  /\ txRet = Return(ErrBegin)
  /\ \E i \in EventsOf(events, "Begin") :
       ~events[i].ok /\ events[i].depth = 1 /\ ~IsNil(events[i].h)

\* C25: Ping returns ErrNoDatabase when no handle is resolved and when the
\* resolved handle has no raw connection, and otherwise the result of the
\* liveness probe on the resolved handle.
C25_PingNoDatabaseOrProbe ==
  lastRet.op = "Ping" =>
    /\ lastRet.h = GetFromContext(Flat(ctxHeap, lastRet.ctx))
    /\ lastRet.kind = "return"
    /\ IF IsNil(lastRet.h) \/ lastRet.raw # "ok"
       THEN lastRet.Error = ErrNoDatabase
       ELSE lastRet.Error = (IF lastRet.probe = "ok" THEN Nil ELSE ErrPing)

\* The Enter entry of the call that issued the Begin at i: the last Enter
\* before it.
EnterOf(i) ==
  CHOOSE e \in EventsOf(events, "Enter") :
    /\ e < i
    /\ \A f \in EventsOf(events, "Enter") : f < i => f <= e

\* C26: a call that begins a transaction invokes its unit of work with a
\* context other than the caller's, derived from it, in which GetFromContext
\* returns the transactional handle; the caller's context keeps resolving to
\* the non-transactional handle the Begin was issued on, during the call and
\* after it; so a second call of the application on the same context issues
\* its own Begin on that handle (it holds that handle until it gets there),
\* and every call that began a transaction and has ended issued one Commit or
\* Rollback of its own.
C26_CallerContextUntouched ==
  /\ \A i \in EventsOf(events, "Begin") :
       events[i].ok =>
         /\ ~isTransaction(events[i].h)
         /\ GetFromContext(events[EnterOf(i)].ctx) = events[i].h
         /\ \E u \in EventsOn(events, "Uow", events[i].tx) :
              /\ u > i
              /\ events[u].depth = events[i].depth
              /\ events[u].ctx # events[EnterOf(i)].ctx
              /\ events[u].ctx.span = events[i].ctx.span
              /\ isTransaction(GetFromContext(events[u].ctx))
              /\ GetFromContext(events[u].ctx) = [events[i].h EXCEPT !.tx = events[i].tx]
  /\ (/\ Len(events) >= 2
      /\ events[1].op = "Prev"
      /\ events[1].tag = "new"
      /\ events[2].ctx = events[1].ctx) =>
       IF stack # <<>> /\ stack[1].path = "pending"
       THEN stack[1].h = events[1].h
       ELSE \E i \in EventsOf(events, "Begin") :
              events[i].depth = 1 /\ events[i].h = events[1].h
  /\ \A x \in EventsOf(events, "Exit") :
       events[x].tag = "new" =>
         Cardinality(EventsOn(events, "Commit", events[x].tx)
                     \cup EventsOn(events, "Rollback", events[x].tx)) = 1

\* The application's second call on the context of its first, which had
\* begun a transaction, has begun and committed a transaction of its own.
C26_Witness ==
  /\ stack = <<>>
  /\ txRet = Return(Nil)
  /\ Len(events) >= 2
  /\ events[1].op = "Prev"
  /\ events[1].tag = "new"
  /\ events[2].ctx = events[1].ctx
  /\ \E i \in EventsOf(events, "Begin") :
       /\ events[i].depth = 1
       /\ events[i].ok
       /\ Cardinality(EventsOn(events, "Commit", events[i].tx)) = 1

\* C27: a call on an already transactional handle ends with its unit of
\* work's result and issues nothing; the Commit and the Rollback of a
\* transaction are issued only by the call that began it, when it ends: a
\* Commit exactly when its own unit of work returned nil, a Rollback exactly
\* when its own unit of work returned an error or panicked, whatever the
\* inner calls returned.
C27_OutermostDecides ==
  /\ \A x \in EventsOf(events, "Exit") :
       events[x].tag = "reuse" => events[x].out = events[x].uow
  /\ \A b \in EventsOf(events, "Begin") :
       LET tx == events[b].tx
           ends == EventsOn(events, "Commit", tx) \cup EventsOn(events, "Rollback", tx)
           exits == { x \in EventsOn(events, "Exit", tx) :
                        events[x].depth = events[b].depth /\ events[x].tag = "new" }
       IN /\ \A c \in ends : events[c].depth = events[b].depth
          /\ exits = {} => ends = {}
          /\ \A x \in exits :
               /\ EventsOn(events, "Commit", tx) # {} <=> events[x].uow = Return(Nil)
               /\ EventsOn(events, "Rollback", tx) # {} <=> events[x].uow # Return(Nil)
               /\ \A c \in ends : c < x

\* An inner call on the transactional handle returned an error, the
\* outermost unit of work returned nil all the same, and the transaction was
\* committed.
C27_Witness ==
  /\ stack = <<>>
  /\ txRet = Return(Nil)
  /\ \E x, y \in EventsOf(events, "Exit") :
       /\ events[x].tag = "reuse"
       /\ events[x].depth = 2
       /\ events[x].out = Return("E1")
       /\ events[y].tag = "new"
       /\ events[y].depth = 1
       /\ events[y].tx = events[x].tx
       /\ events[y].uow = Return(Nil)
       /\ EventsOn(events, "Commit", events[y].tx) # {}

\* C28: a span that WithTransaction started is followed by the call's Begin,
\* is not finished before that Begin nor while the call runs its unit of
\* work, and is finished exactly once when the call has
\* ended, whichever way it ended: after the Commit or Rollback of the call,
\* before the call's exit, and with the error tag exactly when the call
\* returned a non-nil error.
C28_SpanFinishedOnce ==
  \A s \in EventsOf(events, "SpanStart") :
    LET span == events[s].span
        fins == { f \in EventsOf(events, "SpanFinish") : events[f].span = span }
        begins == { i \in EventsOf(events, "Begin") : events[i].span = span }
    IN /\ begins \subseteq {s + 1}
       /\ begins = {} =>
            /\ fins = {}
            /\ s = Len(events)
            /\ stack # <<>>
            /\ stack[Len(stack)].st = "beginning"
            /\ stack[Len(stack)].span = span
       /\ \A b \in begins :
            LET tx == events[b].tx
                exits == { x \in EventsOn(events, "Exit", tx) :
                             events[x].depth = events[s].depth }
                ends == { c \in EventsOn(events, "Commit", tx)
                                 \cup EventsOn(events, "Rollback", tx) :
                            events[c].depth = events[s].depth }
            IN /\ Cardinality(exits) <= 1
               /\ exits = {} => fins = {}
               /\ \A x \in exits :
                    /\ Cardinality(fins) = 1
                    /\ \A f \in fins :
                         /\ f = x - 1
                         /\ \A c \in ends : c < f
                         /\ ~events[f].ok <=>
                              (events[x].out.kind = "return" /\ events[x].out.val # Nil)

\* The application's call started a span, its unit of work returned nil, the
\* Commit failed, and the span was finished after it with the error tag.
C28_Witness ==
  /\ stack = <<>>
  /\ txRet = Return(ErrCommit)
  /\ \E s \in EventsOf(events, "SpanStart") :
       /\ events[s].depth = 1
       /\ \E f \in EventsOf(events, "SpanFinish") :
            /\ events[f].span = events[s].span
            /\ ~events[f].ok
            /\ \E c \in EventsOf(events, "Commit") : c < f /\ ~events[c].ok

\* What the log shows of the spans: a span start comes right after the
\* entry of the call that starts it; a Begin carries a span exactly when the
\* span start of its call comes right before it; a nest whose inner calls use
\* the context they received has at most one span.
SpansLogged ==
  /\ \A s \in EventsOf(events, "SpanStart") :
       /\ s > 1
       /\ events[s - 1].op = "Enter"
       /\ events[s - 1].depth = events[s].depth
  /\ \A b \in EventsOf(events, "Begin") :
       /\ b > 1
       /\ events[b].span # 0 <=>
            /\ events[b - 1].op = "SpanStart"
            /\ events[b - 1].span = events[b].span
            /\ events[b - 1].depth = events[b].depth
       /\ events[b].span = 0 =>
            events[b - 1].op = "Enter" /\ events[b - 1].depth = events[b].depth
  /\ ReceivedContextNest => Cardinality(EventsOf(events, "SpanStart")) <= 1

\* C29: a WithTransaction call starts a span exactly when it takes the
\* new-transaction path (the handle it resolved is neither nil nor
\* transactional) and the active configuration has tracing enabled at the
\* moment the call reads it, whatever the singleton was before or becomes
\* after; the span start comes before the Begin; nothing else starts a span;
\* so a nest whose inner calls use the context they received has at most one
\* span.
C29_SpanOnlyOnNewTransaction ==
  [][ /\ \A n \in 1..Len(stack) :
           LET f == stack[n]
               moved == n > Len(stack') \/ stack'[n] # f
               last == events'[Len(events')]
           IN /\ (f.st = "resolved" /\ moved) =>
                   /\ n <= Len(stack')
                   /\ stack'[n].st = IF GetActiveConfig.EnableTracing
                                     THEN "spanning" ELSE "beginning"
                   /\ stack'[n].span = 0
                   /\ events' = events
              /\ (f.st = "spanning" /\ moved) =>
                   /\ n <= Len(stack')
                   /\ stack'[n].st = "beginning"
                   /\ stack'[n].span # 0
                   /\ Len(events') = Len(events) + 1
                   /\ last.op = "SpanStart"
                   /\ last.span = stack'[n].span
              /\ (f.st = "beginning" /\ moved) =>
                   /\ Len(events') > Len(events)
                   /\ events'[Len(events) + 1].op = "Begin"
                   /\ events'[Len(events) + 1].span = f.span
      /\ \A s \in (Len(events) + 1)..Len(events') :
           events'[s].op = "SpanStart" =>
             /\ stack # <<>>
             /\ stack[Len(stack)].st = "spanning"
             /\ events'[s].depth = Len(stack)
      /\ events' # events => SpansLogged'
    ]_vars

\* The application's call began a transaction with a span on the
\* singleton's handle; its unit of work called WithTransaction with a fresh
\* context, which resolved the same handle; the singleton was reset before
\* that call read the active configuration; the nested call began its
\* transaction on that handle without a span.
C29_Witness ==
  /\ ~GetActiveConfig.EnableTracing
  /\ \E b, n \in EventsOf(events, "Begin") :
       /\ events[b].depth = 1
       /\ events[b].h.kind = "singleton"
       /\ events[b].span # 0
       /\ events[b].ok
       /\ events[n].depth = 2
       /\ events[n].h = events[b].h
       /\ events[n].span = 0
       /\ handles[events[n].h.id].closed > 0

\* C30: the initializer's steps run in the order open, pool knobs, replica
\* resolver (only with replicas configured), tracing (only when enabled),
\* and stop at the first that fails: the handle has the effects of the steps
\* before the failing one and of none after it, the stored error is the
\* failing step's, and when the open fails the stored handle is nil.  The
\* pair the initializer ends with is the pair it stores.
C30_InitSequence ==
  [][ \A t \in Threads :
       /\ (pc[t] = "init_store" /\ pc'[t] = "once_store") => conn' = held[t]
       /\ (pc[t] = "init_body" /\ pc'[t] = "init_store") =>
          LET c == arg[t]
              e == held'[t].Error
              made == Len(handles') > Len(handles)
              h == handles'[Len(handles')]
              pooled == h.knobs = (IF h.raw = "ok" THEN c.knobs ELSE {})
              replicated == h.replicas <=> c.ReplicasDSN # <<>>
          IN /\ e = ErrOpen => held'[t].Instance = 0
             /\ e # ErrOpen => made /\ held'[t].Instance = (IF e = ErrTracing THEN 0
                                                             ELSE Len(handles'))
             /\ made =>
                  /\ e = ErrOpen => h.knobs = {} /\ ~h.replicas /\ ~h.tracing
                  /\ e # ErrOpen => (e = ErrPool <=> h.raw = "err")
                  /\ e = ErrPool => h.knobs = {} /\ ~h.replicas /\ ~h.tracing
                  /\ e = ErrReplica =>
                       c.ReplicasDSN # <<>> /\ pooled /\ ~h.replicas /\ ~h.tracing
                  /\ e = ErrTracing =>
                       c.EnableTracing /\ pooled /\ replicated /\ ~h.tracing
                  /\ e = Nil => pooled /\ replicated /\ (h.tracing <=> c.EnableTracing)
                  /\ e \in {Nil, ErrOpen, ErrPool, ErrReplica, ErrTracing} ]_vars

\* C31: a ResetConnection called while the singleton holds no handle issues
\* no close and, when it returns, leaves {nil handle, nil error, zero config,
\* gate not done}; a ResetConnection that follows another directly finds
\* that state and changes nothing of it; and no handle is ever closed twice
\* by resets.
C31_ResetIdempotent ==
  [][/\ resets' = resets + 1 =>
          /\ lastRet'.kind = "return"
          /\ conn.Instance = 0 =>
               /\ handles' = handles
               /\ conn' = NilConn
               /\ activeConfig' = ZeroConfig
          /\ lastRet.op = "ResetConnection" =>
               /\ UNCHANGED <<conn, activeConfig, handles>>
               /\ dbConnOnce.done = 0
          /\ \A i \in 1..Len(handles') : handles'[i].closed <= 1
     /\ (lastRet'.op = "ResetConnection" /\ hist.close = "empty") =>
          /\ lastRet'.kind = "return"
          /\ conn' = NilConn
          /\ activeConfig' = ZeroConfig
          /\ dbConnOnce'.done = 0]_vars

\* A call waiting for the gate's mutex can go on, now or after a step of the
\* call that holds it.
GateProgress ==
  \A t \in Threads :
    pc[t] = "once_lock" =>
      \/ dbConnOnce.m = 0
      \/ \E u \in Threads : pc[u] \in {"once_locked", "init_cfg", "init_body",
                                       "init_store", "once_store", "once_unlock"}

\* C32: under every interleaving of GetConnection and ResetConnection calls,
\* a reset that re-arms the gate under a running initializer included, the
\* process is never ended by a fatal error, no call is left waiting for the
\* gate for ever, and every call that has returned returned normally.
C32_CallsTerminateWithoutCrash ==
  /\ ~crashed
  /\ GateProgress
  /\ lastRet.kind # "panic"

\* C33: a GetConnection call with a valid configuration never returns a
\* result whose handle and error are both nil, whatever GetConnection and
\* ResetConnection calls run beside it.
C33_ResultNeverEmpty ==
  (lastRet.op = "GetConnection" /\ Validate(lastRet.cfg) = Nil) =>
    ~(lastRet.Instance = 0 /\ lastRet.Error = Nil)

\* The Commit and Rollback calls issued on transaction tx.
EndsOf(tx) == EventsOn(events, "Commit", tx) \cup EventsOn(events, "Rollback", tx)

\* The call that began transaction tx is still in progress.
InProgress(tx) == \E n \in 1..Len(stack) : stack[n].path = "new" /\ stack[n].tx = tx

\* C34: on every transaction WithTransaction began successfully, nothing is
\* committed or rolled back while the call is in progress, and when the call
\* has ended exactly one Commit or Rollback has been issued, never both: by
\* the call itself, after its unit of work was invoked and ended and every
\* call nested in it ended, and before the call returned or re-raised, with
\* only the span's finish in between.
C34_OneCommitOrRollback ==
  \A i \in EventsOf(events, "Begin") :
    events[i].ok =>
      LET tx == events[i].tx
          d == events[i].depth
          exits == { j \in EventsOf(events, "Exit") :
                       events[j].tx = tx /\ events[j].tag = "new" }
      IN IF InProgress(tx)
         THEN EndsOf(tx) = {} /\ exits = {}
         ELSE /\ Cardinality(EndsOf(tx)) = 1
              /\ Cardinality(exits) = 1
              /\ \A k \in EndsOf(tx) : \A j \in exits :
                   /\ i < k /\ k < j
                   /\ events[k].depth = d
                   /\ events[j].depth = d
                   /\ events[j].uow # NoRes
                   /\ \E u \in EventsOn(events, "Uow", tx) :
                        i < u /\ u < k /\ events[u].depth = d
                   /\ \A m \in (i + 1)..(k - 1) :
                        /\ events[m].depth >= d
                        /\ (events[m].op = "Enter" /\ events[m].depth > d) =>
                             \E x \in (m + 1)..(k - 1) :
                               /\ events[x].op = "Exit"
                               /\ events[x].depth = events[m].depth
                   /\ \A m \in (k + 1)..(j - 1) : events[m].op = "SpanFinish"

\* A unit of work panicked inside a nested call that had begun its own
\* transaction; both transactions were rolled back, the inner one first, and
\* the panic reached the application.
C34_Witness ==
  /\ stack = <<>>
  /\ txRet.kind = "panic"
  /\ \E i, j \in EventsOf(events, "Begin") :
       /\ events[i].ok /\ events[j].ok
       /\ events[i].depth = 1 /\ events[j].depth = 2
       /\ \E a \in EventsOn(events, "Rollback", events[i].tx) :
          \E b \in EventsOn(events, "Rollback", events[j].tx) : b < a

\* C35: whenever WithTransaction invokes a unit of work, on either path, the
\* handle GetFromContext returns from the context passed to it is that of a
\* transaction that has been begun and has not been committed or rolled back
\* so far, a context used after the call that created it returned, or by
\* another goroutine, included.
C35_UowInsideOpenTransaction ==
  /\ \A u \in EventsOf(events, "Uow") :
       LET h == GetFromContext(events[u].ctx)
       IN /\ isTransaction(h)
          /\ \E b \in EventsOn(events, "Begin", h.tx) : b < u /\ events[b].ok
          /\ \A k \in EndsOf(h.tx) : u < k
  /\ \A o \in handed :
       /\ isTransaction(GetFromContext(o.ctx))
       /\ o.ended = {}

\* C35, amended: the handle a unit of work finds in its context is that of a
\* transaction that has been begun.  The transaction is still open whenever
\* the call chain the context was made for uses it; WithTransaction called
\* with a context kept from a call that has returned, or by another
\* goroutine with a context handed to it, begins nothing and invokes the
\* unit of work on that transaction whatever has become of it: committed or
\* rolled back already in the first case, open or not in the second.
C35_UowInsideOpenUnlessKept ==
  /\ \A u \in EventsOf(events, "Uow") :
       LET h == GetFromContext(events[u].ctx)
       IN /\ isTransaction(h)
          /\ h.tx = events[u].tx
          /\ \E b \in EventsOn(events, "Begin", h.tx) : b < u /\ events[b].ok
          /\ (\E k \in EndsOf(h.tx) : k < u) =>
               \E e \in EventsOf(events, "Enter") :
                 /\ events[e].tag = "kept"
                 /\ e < u
                 /\ events[e].ctx.h.tx = h.tx
  /\ \A e \in EventsOf(events, "Enter") :
       events[e].tag = "kept" =>
         /\ e < Len(events)
         /\ events[e + 1].op = "Uow"
         /\ events[e + 1].ctx = events[e].ctx
         /\ events[e + 1].tx = events[e].ctx.h.tx
         /\ \E k \in EndsOf(events[e].ctx.h.tx) : k < e
         /\ \A k \in EndsOf(events[e].ctx.h.tx) : k < e
  /\ \A o \in handed :
       LET h == GetFromContext(o.ctx)
       IN /\ isTransaction(h)
          /\ h.tx = o.tx
          /\ o.begins = 0
          /\ Cardinality(o.ended) <= 1

\* The first call committed its transaction and returned; another goroutine
\* then called WithTransaction with the context the unit of work had
\* received, and so did the application: each call ran its unit of work on
\* the committed transaction, and the application's returned nil.
C35_Witness ==
  /\ stack = <<>>
  /\ txRet = Return(Nil)
  /\ \E e \in EventsOf(events, "Enter") :
       /\ events[e].tag = "kept"
       /\ events[Len(events)].op = "Exit"
       /\ events[Len(events)].tag = "reuse"
       /\ events[Len(events)].depth = 1
       /\ \E k \in EventsOn(events, "Commit", events[e].ctx.h.tx) :
            k < e /\ events[k].ok
       /\ \E o \in handed :
            /\ o.tx = events[e].ctx.h.tx
            /\ o.ended = {"Commit"}
            /\ o.out = Return(Nil)

\* A nil handle is what is attached to context id.
NilAttached(id) ==
  LET a == Value(ctxHeap, id, "db")
  IN a.found /\ a.val = NilRef

\* C36: GetFromContext on the context SetFromContext(ctx, h) made returns h,
\* whatever h is and whatever the singleton holds; and on a context with a
\* nil handle attached GetFromContext returns nil, MustGetFromContext panics,
\* Ping returns ErrNoDatabase and WithTransaction returns ErrNoDatabase at
\* once, also while the singleton holds a handle.
C36_NilAttachmentShadows ==
  /\ lastRet.op = "SetFromContext" =>
       GetFromContext(Flat(ctxHeap, lastRet.made)) = lastRet.h
  /\ (lastRet.op = "GetFromContext" /\ NilAttached(lastRet.ctx)) =>
       lastRet.kind = "return" /\ lastRet.h = NilRef
  /\ (lastRet.op = "MustGetFromContext" /\ NilAttached(lastRet.ctx)) =>
       lastRet.kind = "panic"
  /\ (lastRet.op = "Ping" /\ NilAttached(lastRet.ctx)) =>
       lastRet.kind = "return" /\ lastRet.Error = ErrNoDatabase
  /\ \A e \in EventsOf(events, "Enter") :
       (events[e].ctx.has /\ events[e].ctx.h = NilRef) =>
         /\ Len(events) = e + 1
         /\ events[e + 1].op = "Exit"
         /\ events[e + 1].out = Return(ErrNoDatabase)
         /\ stack = <<>>
         /\ txRet = Return(ErrNoDatabase)

\* With a handle in the singleton, WithTransaction on a context with a nil
\* handle attached has returned ErrNoDatabase and MustGetFromContext on such
\* a context has panicked.
C36_Witness ==
  /\ conn.Instance # 0
  /\ lastRet.op = "MustGetFromContext"
  /\ lastRet.kind = "panic"
  /\ NilAttached(lastRet.ctx)
  /\ txRet = Return(ErrNoDatabase)
  /\ \E e \in EventsOf(events, "Enter") : events[e].ctx.has /\ events[e].ctx.h = NilRef

\* C37: a GetConnection call with an invalid configuration returns in the
\* step it is made, with {nil, ErrInvalidConfig}, and leaves the stored pair,
\* the active configuration, the gate and the handles as they were; when a
\* connection is established it stays established and its handle is not what
\* the call returns.
C37_InvalidConfigKeepsConnection ==
  [][(lastRet'.op = "GetConnection" /\ lastRet'.cfg.PrimaryDSN = "") =>
       /\ calls' = calls + 1
       /\ lastRet'.kind = "return"
       /\ lastRet'.Instance = 0
       /\ lastRet'.Error = ErrInvalidConfig
       /\ conn' = conn
       /\ GetActiveConfig' = GetActiveConfig
       /\ dbConnOnce' = dbConnOnce
       /\ handles' = handles
       /\ crashed' = crashed
       /\ conn.Instance # 0 => lastRet'.Instance # conn'.Instance]_vars

\* With a connection established for a valid configuration and the gate
\* closed, a call with an invalid configuration has returned
\* {nil, ErrInvalidConfig}.
C37_Witness ==
  /\ lastRet.op = "GetConnection"
  /\ lastRet.cfg.PrimaryDSN = ""
  /\ lastRet.Instance = 0
  /\ lastRet.Error = ErrInvalidConfig
  /\ conn.Instance # 0
  /\ conn.Error = Nil
  /\ dbConnOnce.done = 1
  /\ GetActiveConfig \in ValidConfigs

\* C38: when a GetConnection snapshot or a GetFromContext fallback read
\* copies the singleton's handle, ResetConnection has issued no close on that
\* handle: in the lock's critical sections statement by statement, and in the
\* snapshot step of concurrent GetConnection calls.
C38_NoClosedHandleExposed ==
  [][/\ \A t \in Threads :
          (/\ rd[t].at = "locked"
           /\ rd'[t].at = "first"
           /\ rd[t].op \in {"snapshot", "fallback"}
           /\ rd'[t].conn.Instance # 0) =>
            handles[rd'[t].conn.Instance].closed = 0
     /\ \A t \in Threads :
          (pc[t] = "snapshot" /\ pc'[t] = "idle" /\ lastRet'.Instance # 0) =>
            handles[lastRet'.Instance].closed = 0]_vars

\* A fallback read and a snapshot took the stored handle before the reset
\* got the lock; the reset has since closed that handle and cleared the
\* singleton.
C38_Witness ==
  /\ rst = "done"
  /\ conn = NilConn
  /\ \E t, u \in Threads :
       /\ rd[t].at = "ret" /\ rd[t].op = "fallback"
       /\ rd[u].at = "ret" /\ rd[u].op = "snapshot"
       /\ rd[t].conn.Instance # 0
       /\ rd[u].conn.Instance = rd[t].conn.Instance
       /\ handles[rd[t].conn.Instance].closed = 1

\* C39: the singleton's stored error plays no part in the fallback: with a
\* handle stored together with the error of applyPoolConfig or of the replica
\* registration, GetFromContext on a plain context returns that handle, and
\* every WithTransaction call made with a plain context holds that handle
\* and goes on to Begin on it instead of returning ErrNoDatabase.
C39_FallbackIgnoresStoredError ==
  (conn.Instance # 0 /\ conn.Error \in {ErrPool, ErrReplica}) =>
    /\ GetFromContext(Background) = SingletonRef(conn.Instance)
    /\ \A e \in EventsOf(events, "Enter") :
         ~events[e].ctx.has =>
           /\ e < Len(events) => events[e + 1].op \in {"SpanStart", "Begin"}
           /\ IF e = Len(events) \/ (e + 1 = Len(events) /\ events[e + 1].op = "SpanStart")
              THEN /\ stack # <<>>
                   /\ stack[Len(stack)].path = "pending"
                   /\ stack[Len(stack)].h = SingletonRef(conn.Instance)
              ELSE \E b \in EventsOf(events, "Begin") :
                     /\ b \in {e + 1, e + 2}
                     /\ events[b].depth = events[e].depth
                     /\ events[b].h = SingletonRef(conn.Instance)
           /\ \A x \in EventsOf(events, "Exit") :
                events[x].depth = events[e].depth => events[x].out # Return(ErrNoDatabase)

\* The replica registration failed and its error is stored with the handle;
\* WithTransaction on context.Background() began a transaction on that
\* handle, committed it and returned nil.
C39_Witness ==
  /\ conn.Instance # 0
  /\ conn.Error = ErrReplica
  /\ stack = <<>>
  /\ txRet = Return(Nil)
  /\ \E e \in EventsOf(events, "Enter") :
       /\ events[e].depth = 1
       /\ ~events[e].ctx.has
       /\ \E b \in EventsOf(events, "Begin") :
            /\ events[b].ok
            /\ events[b].h = SingletonRef(conn.Instance)
            /\ \E k \in EventsOn(events, "Commit", events[b].tx) : events[k].ok

====
